---- MODULE Spec2Model ----
(***************************************************************************)
(* Model of the fruit-ninja-bot decision core: FruitTracker                *)
(* (src/vision/fruit_tracker.py), the FruitNinjaBot run loop (real_bot.py), *)
(* the track association and multi-fruit swipe of MLStrategy               *)
(* (src/strategies/ml_strategy.py) and MouseController                     *)
(* (src/control/mouse_controller.py).                                      *)
(*                                                                         *)
(* Time is counted in ticks of 0.05 s, so 0.1 s = 2 ticks, 1.0 s = 20      *)
(* ticks and the 0.15 s prediction look-ahead = 3 ticks.  Positions are    *)
(* integer pixels <<x, y>>.  Velocities and accelerations are exact        *)
(* rationals <<numerator, denominator>> (denominator > 0) in px/s, px/s^2. *)
(***************************************************************************)
EXTENDS Integers, Sequences, FiniteSets, TLC

VARIABLES
    clock,            \* the last value time.time() returned
    fruit_history,    \* FruitTracker.fruit_history: track_id -> <<t, x, y>>*
    next_track_id,    \* FruitTracker.next_track_id
    current_fruits,   \* argument of the last FruitTracker.update call
    update_time,      \* current_time read by the last update call
    assigned,         \* result of _assign_track_ids in the last update call
    updated_fruits,   \* list returned by the last update call
    pc,               \* "running" while FruitNinjaBot.run loops, else "stopped"
    iterations,       \* iterations of the run loop started so far
    frame_counter,    \* FruitNinjaBot.frame_counter
    last_swipe_time,  \* FruitNinjaBot.last_swipe_time
    total_swipes,     \* FruitNinjaBot.total_swipes
    potential_pomegranates,  \* fruit_id -> <<first_seen_time, slice_count>>
    rapid_mode,       \* FruitNinjaBot.rapid_mode
    rapid_mode_end_time,     \* FruitNinjaBot.rapid_mode_end_time
    frame_time,       \* current_time of the last processed frame of run
    frame_bombs,      \* the hazards of the last processed frame
    is_rapid_mode,    \* result of check_pomegranate_behavior in that frame
    action,           \* the perform_swipe call of that frame, or NoSwipe
    fruit_tracks,     \* MLStrategy.fruit_tracks: track_id -> track record
    track_id_counter, \* MLStrategy.track_id_counter
    ml_fruits,        \* argument of the last _assign_ids_to_fruits call
    ml_updated,       \* list returned by the last _assign_ids_to_fruits call
    mouse_available,  \* MouseController.mouse_available
    button_down,      \* whether the left mouse button is held down
    cursor,           \* position of the mouse cursor, <<x, y>>
    mouse_events,     \* button calls that took effect in the last perform_swipe
    swipe_calls       \* perform_swipe calls that have returned

tracker_vars == <<fruit_history, next_track_id, current_fruits, update_time,
                  assigned, updated_fruits>>

bot_vars == <<pc, iterations, frame_counter, last_swipe_time, total_swipes,
              potential_pomegranates, rapid_mode, rapid_mode_end_time,
              frame_time, frame_bombs, is_rapid_mode, action>>

ml_vars == <<fruit_tracks, track_id_counter, ml_fruits, ml_updated>>

mouse_vars == <<mouse_available, button_down, cursor, mouse_events,
                swipe_calls>>

\* the state outside the tracker and the run loop
ext_vars == <<ml_vars, mouse_vars>>

vars == <<clock, tracker_vars, bot_vars, ext_vars>>

----------------------------------------------------------------------------
(* Program constants *)

\* fruit_tracker.py:65, "if closest_distance < 50"
AssocThreshold == 50
\* fruit_tracker.py:13, max_history=10
max_history == 10
\* fruit_tracker.py:178, 1.0 s timeout = 20 ticks
TrackTimeout == 20
\* fruit_tracker.py:20, gravity = 9.8 * 50 px/s^2
gravity == 490
\* fruit_tracker.py:149, predict_time = 0.15 s = PredictNum / PredictDen s
PredictNum == 3
PredictDen == 20
\* ticks per second of the model's clock
TicksPerSecond == 20
\* real_bot.py:31, swipe_length = 60
swipe_length == 60
\* real_bot.py:32, swipe_duration = 0.020 s, in microseconds
swipe_duration == 20000
\* real_bot.py:222, rapid-mode factor 0.8 = RapidFactorNum / RapidFactorDen
RapidFactorNum == 4
RapidFactorDen == 5
\* real_bot.py:33, cooldown = 0.1 s = 2 ticks
cooldown == 2
\* real_bot.py:71, score corridor: horizontal < 60 and vertical < 25
CorridorX == 60
CorridorY == 25
\* real_bot.py:90 and :104, path check: horizontal < 70 and vertical < 30
PathX == 70
PathY == 30
\* real_bot.py:106, bombs within 80 px shorten the swipe
AdjustReach == 80
\* real_bot.py:107, berth of 25 px
Berth == 25
\* real_bot.py:114, minimal swipe half-length and span floor of 40 px
MinSwipe == 40
\* real_bot.py:134, persistence > 1.0 s = 20 ticks and slice_count >= 2
PersistTime == 20
MinSlices == 2
\* real_bot.py:138, rapid mode lasts 3.0 s = 60 ticks
RapidTime == 60
\* real_bot.py:194, entries older than 2.0 s = 40 ticks are removed
PurgeTime == 40
\* real_bot.py:293, time.sleep(2) = 40 ticks
GameOverSleep == 40
\* real_bot.py:290, game-over check every 100 frames
GameOverEvery == 100
\* real_bot.py:301, best_score > 0.5 = ActionNum / ActionDen
ActionNum == 1
ActionDen == 2
\* real_bot.py:162, safety_score < 0.6 is rejected; in thousandths
MinSafety == 600
\* ml_strategy.py:162, fruits are grouped by center y // 40
HeightQuantum == 40
\* ml_strategy.py:178, swipe_margin = 50
swipe_margin == 50
\* ml_strategy.py:37, "distance < 80"
MLThreshold == 80
\* ml_strategy.py:33, "current_time - track_data["last_seen"] < 0.8" = 16 ticks
MLRecency == 16
\* ml_strategy.py:65, clean-up after 1.5 s = 30 ticks
MLCleanup == 30
\* ml_strategy.py:20, max_track_history = 15
max_track_history == 15
\* config.py:9, CAPTURE_REGION = (913, 171, 1885, 979)
RegionLeft == 913
RegionTop == 171
RegionRight == 1885
RegionBottom == 979

----------------------------------------------------------------------------
(* Bounds of the model *)

\* the clock starts here (time.time() is far from 0, the initial stamps)
StartTime == 2
\* the run loop starts no iteration after this tick
MaxTime == 90
\* SpecTracker calls update no later than this tick
MaxUpdateTime == 45
\* no update call allocates an ID beyond this one
MaxIds == 4
\* iterations of the run loop in Spec
MaxIterations == 4
\* iterations of the run loop in SpecRapid
MaxRapidIterations == 5
\* SpecHist calls update no later than this tick
MaxHistTime == 14
\* iterations of the run loop in SpecTarget
MaxTargetIterations == 2
\* SpecPredict calls update while every history is shorter than this
MaxSamples == 3
\* iterations of the run loop in SpecEdge
MaxEdgeIterations == 3
\* perform_swipe calls in SpecMouse
MaxSwipeCalls == 3
\* SpecAssoc makes no association pass after this tick
MaxAssocTime == 46
\* SpecML calls _assign_ids_to_fruits no later than this tick
MaxMLTime == 50
\* no _assign_ids_to_fruits call allocates an ID beyond this one
MaxMLIds == 4

----------------------------------------------------------------------------
(* Arithmetic helpers *)

Abs(n) == IF n < 0 THEN -n ELSE n

Min(a, b) == IF a <= b THEN a ELSE b

Max(a, b) == IF a >= b THEN a ELSE b

\* greatest common divisor of two naturals
RECURSIVE GCD(_, _)
GCD(a, b) == IF b = 0 THEN a ELSE GCD(b, a % b)

\* exact rationals <<n, d>>, d > 0, kept in lowest terms
Rat(n, d) == LET g == GCD(Abs(n), d) IN <<n \div g, d \div g>>

RatSub(a, b) ==
    LET g == GCD(a[2], b[2])
    IN  Rat(a[1] * (b[2] \div g) - b[1] * (a[2] \div g), (a[2] \div g) * b[2])

RatAdd(a, b) == RatSub(a, <<-b[1], b[2]>>)

RatMul(a, b) ==
    LET g1 == GCD(Abs(a[1]), b[2])
        g2 == GCD(Abs(b[1]), a[2])
    IN  <<(a[1] \div g1) * (b[1] \div g2), (a[2] \div g2) * (b[2] \div g1)>>

\* a / b for b > 0
RatDiv(a, b) == RatMul(a, <<b[2], b[1]>>)

\* Python int(y + f) for an integer y and a rational f: truncation toward 0
TruncAdd(y, f) ==
    LET lo == f[1] \div f[2]
        hi == -((-f[1]) \div f[2])
    IN  IF y + lo >= 0 THEN y + lo ELSE y + hi

\* the elements of a finite set of integers in ascending order
RECURSIVE SortedSeq(_)
SortedSeq(S) ==
    IF S = {} THEN <<>>
    ELSE LET m == CHOOSE x \in S : \A y \in S : x <= y
         IN  <<m>> \o SortedSeq(S \ {m})

----------------------------------------------------------------------------
(* FruitTracker *)

\* _calculate_distance, squared: sqrt is monotone and exact on the squares
\* compared here, so d < 50 iff d^2 < 2500 and argmin is unchanged
Dist2(p, q) == (p[1] - q[1]) * (p[1] - q[1]) + (p[2] - q[2]) * (p[2] - q[2])

\* history[-1][1:]
LastPos(h) == <<h[Len(h)][2], h[Len(h)][3]>>

\* row i of cost_matrix (squared); a track with an empty history keeps zeros
CostRow(h, fruits) ==
    [j \in 1..Len(fruits) |->
        IF Len(h) > 0 THEN Dist2(LastPos(h), fruits[j].center) ELSE 0]

\* mutant: the last index of the smallest entry
ArgMinLast(row) ==
    CHOOSE j \in 1..Len(row) :
        /\ \A k \in 1..Len(row) : row[j] <= row[k]
        /\ \A k \in (j + 1)..Len(row) : row[k] > row[j]

\* np.argmin: the first index of the smallest entry
ArgMin(row) ==
    CHOOSE j \in 1..Len(row) :
        /\ \A k \in 1..Len(row) : row[j] <= row[k]
        /\ \A k \in 1..(j - 1) : row[k] > row[j]

\* mutant: a detection at the threshold distance is close enough
CloseEnoughInclusive(d2) == d2 <= AssocThreshold * AssocThreshold

\* "if closest_distance < 50"
CloseEnough(d2) == d2 < AssocThreshold * AssocThreshold

\* the loop over existing_ids: <<track_id, index>> for every track whose
\* closest detection is within the threshold
RECURSIVE MatchTracks(_, _, _)
MatchTracks(ids, hist, fruits) ==
    IF ids = <<>> \/ Len(fruits) = 0 THEN <<>>
    ELSE LET track_id == Head(ids)
             row == CostRow(hist[track_id], fruits)
             closest_idx == ArgMin(row)
         IN  (IF CloseEnough(row[closest_idx])
                 THEN <<<<track_id, closest_idx>>>> ELSE <<>>)
             \o MatchTracks(Tail(ids), hist, fruits)

\* used_current
UsedCurrent(matched) == {matched[i][2] : i \in 1..Len(matched)}

\* mutant: the counter is not advanced between two new tracks
NewTracksSameId(unmatched, next) ==
    [k \in 1..Len(unmatched) |-> <<next, unmatched[k]>>]

\* "Assign new IDs to unmatched fruits": the k-th unmatched detection gets
\* next_track_id + k - 1
NewTracks(unmatched, next) ==
    [k \in 1..Len(unmatched) |-> <<next + k - 1, unmatched[k]>>]

\* mutant: an empty table restarts the numbering at 0
AssignTrackIdsRestart(hist, next, fruits) ==
    IF DOMAIN hist = {}
    THEN [assigned |-> [j \in 1..Len(fruits) |-> <<j - 1, j>>],
          next |-> Len(fruits)]
    ELSE LET matched == MatchTracks(SortedSeq(DOMAIN hist), hist, fruits)
             used == UsedCurrent(matched)
             unmatched == SortedSeq({j \in 1..Len(fruits) : j \notin used})
         IN  [assigned |-> matched \o NewTracks(unmatched, next),
              next |-> next + Len(unmatched)]

\* _assign_track_ids: the assigned dict in insertion order, and the counter
AssignTrackIds(hist, next, fruits) ==
    IF DOMAIN hist = {}
    THEN [assigned |-> [j \in 1..Len(fruits) |-> <<next + j - 1, j>>],
          next |-> next + Len(fruits)]
    ELSE LET matched == MatchTracks(SortedSeq(DOMAIN hist), hist, fruits)
             used == UsedCurrent(matched)
             unmatched == SortedSeq({j \in 1..Len(fruits) : j \notin used})
         IN  [assigned |-> matched \o NewTracks(unmatched, next),
              next |-> next + Len(unmatched)]

\* mutant: a deque without maxlen
DequeAppendUnbounded(h, e) == Append(h, e)

\* deque(maxlen=max_history).append
DequeAppend(h, e) ==
    IF Len(h) >= max_history THEN Append(Tail(h), e) ELSE Append(h, e)

\* the history table after the loop of update has appended every assignment
AppendAll(hist, asg, fruits, t) ==
    LET ids == {asg[i][1] : i \in 1..Len(asg)}
        idx(id) == (CHOOSE i \in 1..Len(asg) : asg[i][1] = id)
        entry(id) == <<t, fruits[asg[idx(id)][2]].center[1],
                          fruits[asg[idx(id)][2]].center[2]>>
    IN  [id \in DOMAIN hist \cup ids |->
            IF id \in ids
            THEN DequeAppend(IF id \in DOMAIN hist THEN hist[id] ELSE <<>>,
                             entry(id))
            ELSE hist[id]]

\* mutant: a track is dropped as soon as its age reaches the timeout
TimedOutEarly(h, t) == Len(h) > 0 /\ t - h[Len(h)][1] >= TrackTimeout

\* _clean_old_tracks
TimedOut(h, t) == Len(h) > 0 /\ t - h[Len(h)][1] > TrackTimeout

CleanOldTracks(hist, t) ==
    [id \in {i \in DOMAIN hist : ~TimedOut(hist[i], t)} |-> hist[id]]

\* a rational <<n, d>>, d > 0, compared with an integer
RatLess(r, c) == r[1] < c * r[2]

RatGreater(r, c) == r[1] > c * r[2]

\* the early returns of _calculate_trajectory_parameters
NoMotion == [phase |-> "unknown", vx |-> <<0, 1>>, vy |-> <<0, 1>>,
             ay |-> <<0, 1>>]

\* mutant: the descending test comes before the hover test
PhaseOfDescendingFirst(vy, ay) ==
    IF RatLess(vy, -5) /\ ay[1] < 0 THEN "ascending"
    ELSE IF RatGreater(vy, 5) THEN "descending"
    ELSE IF RatLess(<<Abs(vy[1]), vy[2]>>, 15) THEN "hover"
    ELSE "unknown"

\* mutant: hover only below 5 px/s
PhaseOfNarrowHover(vy, ay) ==
    IF RatLess(vy, -5) /\ ay[1] < 0 THEN "ascending"
    ELSE IF RatLess(<<Abs(vy[1]), vy[2]>>, 5) THEN "hover"
    ELSE IF RatGreater(vy, 5) THEN "descending"
    ELSE "unknown"

\* "Determine phase based on velocity and acceleration"
PhaseOf(vy, ay) ==
    IF RatLess(vy, -5) /\ ay[1] < 0 THEN "ascending"
    ELSE IF RatLess(<<Abs(vy[1]), vy[2]>>, 15) THEN "hover"
    ELSE IF RatGreater(vy, 5) THEN "descending"
    ELSE "unknown"

\* acceleration_y of _calculate_trajectory_parameters; dt > 0 in ticks
AccelerationY(h, velocity_y, dt) ==
    LET n == Len(h)
    IN  IF n >= 3
        THEN LET prev_dt == h[n - 1][1] - h[n - 2][1]
             IN  IF prev_dt > 0
                 THEN LET prev_velocity_y ==
                              Rat(TicksPerSecond * (h[n - 1][3] - h[n - 2][3]),
                                  prev_dt)
                      IN  RatDiv(RatSub(velocity_y, prev_velocity_y),
                                 Rat(dt, TicksPerSecond))
                 ELSE <<-gravity, 1>>
        ELSE <<-gravity, 1>>

\* _calculate_trajectory_parameters on the history of one track
TrajectoryParameters(h) ==
    LET n == Len(h)
    IN  IF n < 2 THEN NoMotion
        ELSE LET dt == h[n][1] - h[n - 1][1]
             IN  IF dt <= 0 THEN NoMotion
                 ELSE LET vx == Rat(TicksPerSecond * (h[n][2] - h[n - 1][2]), dt)
                          vy == Rat(TicksPerSecond * (h[n][3] - h[n - 1][3]), dt)
                          ay == AccelerationY(h, vy, dt)
                      IN  [phase |-> PhaseOf(vy, ay), vx |-> vx, vy |-> vy,
                           ay |-> ay]

\* predict_time = 0.15
predict_time == Rat(PredictNum, PredictDen)

\* int(current_x + vel_x * predict_time)
PredictX(x, vx) == TruncAdd(x, RatMul(vx, predict_time))

\* int(current_y + vel_y * predict_time + 0.5 * accel_y * predict_time**2)
PredictY(y, vy, ay) ==
    TruncAdd(y, RatAdd(RatMul(vy, predict_time),
                       RatMul(RatMul(<<1, 2>>, ay),
                              RatMul(predict_time, predict_time))))

\* mutant: a single sample is extrapolated with the assumed gravity
AnnotateGravityDefault(fruit, track_id, h) ==
    LET m == IF Len(h) >= 2 THEN TrajectoryParameters(h)
             ELSE [phase |-> "unknown", vx |-> <<0, 1>>, vy |-> <<0, 1>>,
                   ay |-> <<-gravity, 1>>]
    IN  [center |-> fruit.center, confidence |-> fruit.confidence,
         track_id |-> track_id, phase |-> m.phase,
         predicted_pos |-> <<PredictX(fruit.center[1], m.vx),
                             PredictY(fruit.center[2], m.vy, m.ay)>>,
         velocity |-> <<m.vx, m.vy>>]

\* the keys update writes into the fruit dict assigned to track_id, whose
\* history h already holds this frame's entry
Annotate(fruit, track_id, h) ==
    IF Len(h) >= 2
    THEN LET m == TrajectoryParameters(h)
         IN  [center |-> fruit.center, confidence |-> fruit.confidence,
              track_id |-> track_id, phase |-> m.phase,
              predicted_pos |-> <<PredictX(fruit.center[1], m.vx),
                                  PredictY(fruit.center[2], m.vy, m.ay)>>,
              velocity |-> <<m.vx, m.vy>>]
    ELSE [center |-> fruit.center, confidence |-> fruit.confidence,
          track_id |-> track_id, phase |-> "unknown",
          predicted_pos |-> fruit.center, velocity |-> <<<<0, 1>>, <<0, 1>>>>]

\* mutant: one entry for every track of the table, at its last position
UpdatedFruitsAllLive(hist, asg, fruits) ==
    LET ids == SortedSeq(DOMAIN hist)
    IN  [i \in 1..Len(ids) |->
            Annotate([center |-> LastPos(hist[ids[i]]), confidence |-> 100],
                     ids[i], hist[ids[i]])]

\* mutant: only the first assignment is returned
UpdatedFruitsFirstOnly(hist, asg, fruits) ==
    [i \in 1..Min(1, Len(asg)) |->
        Annotate(fruits[asg[i][2]], asg[i][1], hist[asg[i][1]])]

\* updated_fruits: one entry per assignment; an entry is a reference to the
\* detection's dict, so it shows what the last assignment of that detection
\* wrote into it
UpdatedFruits(hist, asg, fruits) ==
    [i \in 1..Len(asg) |->
        LET j == asg[i][2]
            last == CHOOSE k \in 1..Len(asg) :
                        /\ asg[k][2] = j
                        /\ \A l \in 1..Len(asg) : asg[l][2] = j => l <= k
        IN  Annotate(fruits[j], asg[last][1], hist[asg[last][1]])]

\* FruitTracker.update(current_fruits) with time.time() = t
Update(hist, next, fruits, t) ==
    LET a == AssignTrackIds(hist, next, fruits)
        appended == AppendAll(hist, a.assigned, fruits, t)
    IN  [assigned |-> a.assigned,
         next |-> a.next,
         updated |-> UpdatedFruits(appended, a.assigned, fruits),
         history |-> CleanOldTracks(appended, t)]

----------------------------------------------------------------------------
(* FruitNinjaBot *)

\* calculate_safety_score in thousandths (1.0 = 1000): distance / 100 is
\* sqrt(d2 * 100) / 1000, rounded down to a thousandth
RECURSIVE ISqrtFrom(_, _)
ISqrtFrom(n, r) == IF (r + 1) * (r + 1) > n THEN r ELSE ISqrtFrom(n, r + 1)

DistanceSafety(d2) ==
    IF d2 >= 100 * 100 THEN 1000
    ELSE LET tens == ISqrtFrom(d2, 0)
         IN  ISqrtFrom(d2 * 100, tens * 10)

\* "if horizontal_distance < 60 and vertical_difference < 25: return 0.0"
InScoreCorridor(fruit, bomb) ==
    /\ Abs(fruit.center[1] - bomb.center[1]) < CorridorX
    /\ Abs(fruit.center[2] - bomb.center[2]) < CorridorY

\* mutant: the smallest distance score, without the corridor override
SafetyLoopNoCorridor(fruit, bombs, i, min_safety) ==
    LET d(k) == DistanceSafety(Dist2(fruit.center, bombs[k].center))
    IN  Min(min_safety,
            d(CHOOSE k \in i..Len(bombs) : \A l \in i..Len(bombs) : d(k) <= d(l)))

\* the loop of calculate_safety_score from bomb i on, min_safety so far
RECURSIVE SafetyLoop(_, _, _, _)
SafetyLoop(fruit, bombs, i, min_safety) ==
    IF i > Len(bombs) THEN min_safety
    ELSE IF InScoreCorridor(fruit, bombs[i]) THEN 0
    ELSE SafetyLoop(fruit, bombs, i + 1,
                    Min(min_safety,
                        DistanceSafety(Dist2(fruit.center, bombs[i].center))))

calculate_safety_score(fruit, bombs) ==
    IF Len(bombs) = 0 THEN 1000 ELSE SafetyLoop(fruit, bombs, 1, 1000)

\* mutant: the path check with the width of the score corridor
is_swipe_safe_narrow(fruit, bombs) ==
    \A i \in 1..Len(bombs) :
        ~(/\ Abs(fruit.center[1] - bombs[i].center[1]) < CorridorX
          /\ Abs(fruit.center[2] - bombs[i].center[2]) < PathY)

\* is_swipe_safe
is_swipe_safe(fruit, bombs) ==
    \A i \in 1..Len(bombs) :
        ~(/\ Abs(fruit.center[1] - bombs[i].center[1]) < PathX
          /\ Abs(fruit.center[2] - bombs[i].center[2]) < PathY)

\* mutant: the span is cut at the bomb's x, without the berth
RECURSIVE AdjustLoopNoBerth(_, _, _, _, _, _)
AdjustLoopNoBerth(fruit_x, fruit_y, bombs, i, base_start, base_end) ==
    IF i > Len(bombs) THEN <<base_start, base_end>>
    ELSE LET bomb_x == bombs[i].center[1]
             bomb_y == bombs[i].center[2]
         IN  IF Abs(fruit_y - bomb_y) < PathY
                    /\ Abs(bomb_x - fruit_x) < AdjustReach
             THEN AdjustLoopNoBerth(
                      fruit_x, fruit_y, bombs, i + 1,
                      IF bomb_x < fruit_x THEN Max(base_start, bomb_x)
                                          ELSE base_start,
                      IF bomb_x > fruit_x THEN Min(base_end, bomb_x)
                                          ELSE base_end)
             ELSE AdjustLoopNoBerth(fruit_x, fruit_y, bombs, i + 1,
                                    base_start, base_end)

\* the loop of adjust_swipe_for_bombs from bomb i on
RECURSIVE AdjustLoop(_, _, _, _, _, _)
AdjustLoop(fruit_x, fruit_y, bombs, i, base_start, base_end) ==
    IF i > Len(bombs) THEN <<base_start, base_end>>
    ELSE LET bomb_x == bombs[i].center[1]
             bomb_y == bombs[i].center[2]
         IN  IF Abs(fruit_y - bomb_y) < PathY
             THEN IF bomb_x < fruit_x /\ Abs(bomb_x - fruit_x) < AdjustReach
                  THEN AdjustLoop(fruit_x, fruit_y, bombs, i + 1,
                                  Max(base_start, bomb_x + Berth), base_end)
                  ELSE IF bomb_x > fruit_x /\ Abs(bomb_x - fruit_x) < AdjustReach
                  THEN AdjustLoop(fruit_x, fruit_y, bombs, i + 1,
                                  base_start, Min(base_end, bomb_x - Berth))
                  ELSE AdjustLoop(fruit_x, fruit_y, bombs, i + 1,
                                  base_start, base_end)
             ELSE AdjustLoop(fruit_x, fruit_y, bombs, i + 1,
                             base_start, base_end)

\* mutant: the default swipe, whatever the bombs
adjust_swipe_unshaped(fruit_x, fruit_y, bombs) ==
    <<fruit_x - swipe_length, fruit_x + swipe_length>>

\* mutant: always the minimal symmetric swipe
adjust_swipe_minimal(fruit_x, fruit_y, bombs) ==
    <<fruit_x - MinSwipe, fruit_x + MinSwipe>>

adjust_swipe_for_bombs(fruit_x, fruit_y, bombs) ==
    LET r == AdjustLoop(fruit_x, fruit_y, bombs, 1,
                        fruit_x - swipe_length, fruit_x + swipe_length)
    IN  IF r[2] - r[1] < MinSwipe
        THEN <<fruit_x - MinSwipe, fruit_x + MinSwipe>>
        ELSE r

\* frame_height, frame_width from CAPTURE_REGION
frame_height == RegionBottom - RegionTop
frame_width == RegionRight - RegionLeft

\* mutant: only the lower edge of the screen is excluded
InHeightWindowNoTop(fruit_y) == 10 * fruit_y <= 7 * frame_height

\* "0.4 <= height_percentage <= 0.7", height_percentage = fruit_y / 808
InHeightWindow(fruit_y) ==
    /\ 4 * frame_height <= 10 * fruit_y
    /\ 10 * fruit_y <= 7 * frame_height

\* position_score = 1.0 - abs(height_percentage - 0.55), as a numerator over
\* 20 * frame_height
PositionScore(fruit_y) ==
    20 * frame_height - Abs(20 * fruit_y - 11 * frame_height)

\* total_score = safety_score * confidence * position_score, as a numerator
\* over ScoreOne (safety in thousandths, confidence in percent)
ScoreOne == 1000 * 100 * 20 * frame_height

TotalScore(fruit, bombs) ==
    calculate_safety_score(fruit, bombs) * fruit.confidence
        * PositionScore(fruit.center[2])

\* mutant: the path check is left out
EligibleNoPathCheck(fruit, bombs) ==
    /\ InHeightWindow(fruit.center[2])
    /\ ~(calculate_safety_score(fruit, bombs) < MinSafety)

\* the conditions under which the loop of find_best_swipe_target does not
\* "continue" past a fruit
Eligible(fruit, bombs) ==
    /\ InHeightWindow(fruit.center[2])
    /\ ~(calculate_safety_score(fruit, bombs) < MinSafety)
    /\ is_swipe_safe(fruit, bombs)

\* the loop of find_best_swipe_target from fruit i on; best = 0 is None and
\* best_score = -1 as in the code
RECURSIVE BestLoop(_, _, _, _, _)
BestLoop(fruits, bombs, i, best, best_score) ==
    IF i > Len(fruits) THEN [target |-> best, score |-> best_score]
    ELSE IF Eligible(fruits[i], bombs)
            /\ TotalScore(fruits[i], bombs) > best_score
         THEN BestLoop(fruits, bombs, i + 1, i, TotalScore(fruits[i], bombs))
         ELSE BestLoop(fruits, bombs, i + 1, best, best_score)

\* mutant: only a swipe in the same tick is held back
CooldownSameTick(t, last) == t - last <= 0

\* the cooldown gate of find_best_swipe_target
CooldownActive(t, last) == t - last < cooldown

\* find_best_swipe_target: index of the target in fruits (0 = None), score
find_best_swipe_target(fruits, bombs, t, last) ==
    IF Len(fruits) = 0 \/ CooldownActive(t, last)
    THEN [target |-> 0, score |-> 0]
    ELSE BestLoop(fruits, bombs, 1, 0, -1)

\* mutant: the fingerprint is derived from the track ID
FruitIdByTrack(fruit) == <<fruit.track_id, fruit.track_id>>

\* fruit_id = f"{x}_{y}": the pair <<x, y>> stands for the string
FruitId(fruit) == fruit.center

\* the first fruit of the list whose fingerprint entry shows pomegranate
\* behaviour, 0 when none does
\* mutant: the slice count is not looked at
PersistedAnyCount(entry, t) == t - entry[1] > PersistTime

Persisted(entry, t) == t - entry[1] > PersistTime /\ entry[2] >= MinSlices

PomegranateSeen(fruits, pp, t) ==
    \E i \in 1..Len(fruits) :
        FruitId(fruits[i]) \in DOMAIN pp /\ Persisted(pp[FruitId(fruits[i])], t)

\* "if self.rapid_mode and current_time > self.rapid_mode_end_time"
RapidExpired(rapid, end, t) == rapid /\ t > end

\* mutant: a pomegranate seen while the mode is active renews the expiry
check_pomegranate_renew(fruits, pp, rapid, end, t) ==
    LET rapid1 == IF RapidExpired(rapid, end, t) THEN FALSE ELSE rapid
    IN  IF PomegranateSeen(fruits, pp, t)
        THEN [rapid_mode |-> TRUE, rapid_mode_end_time |-> t + RapidTime,
              result |-> TRUE]
        ELSE [rapid_mode |-> rapid1, rapid_mode_end_time |-> end,
              result |-> rapid1]

\* mutant: the result is the flag as it was before the call
check_pomegranate_stale_result(fruits, pp, rapid, end, t) ==
    LET rapid1 == IF RapidExpired(rapid, end, t) THEN FALSE ELSE rapid
    IN  IF PomegranateSeen(fruits, pp, t)
        THEN [rapid_mode |-> TRUE,
              rapid_mode_end_time |-> IF rapid1 THEN end ELSE t + RapidTime,
              result |-> rapid]
        ELSE [rapid_mode |-> rapid1, rapid_mode_end_time |-> end,
              result |-> rapid]

\* check_pomegranate_behavior: the two fields after the call and the result
check_pomegranate_behavior(fruits, pp, rapid, end, t) ==
    LET rapid1 == IF RapidExpired(rapid, end, t) THEN FALSE ELSE rapid
    IN  IF PomegranateSeen(fruits, pp, t)
        THEN [rapid_mode |-> TRUE,
              rapid_mode_end_time |-> IF rapid1 THEN end ELSE t + RapidTime,
              result |-> TRUE]
        ELSE [rapid_mode |-> rapid1, rapid_mode_end_time |-> end,
              result |-> rapid1]

\* "Clean up old entries" of track_pomegranate_candidate
Stale(entry, t) == t - entry[1] > PurgeTime

\* track_pomegranate_candidate
track_pomegranate_candidate(pp, fruit, t) ==
    LET fid == FruitId(fruit)
        counted == [f \in DOMAIN pp \cup {fid} |->
                       IF f = fid
                       THEN IF fid \in DOMAIN pp
                            THEN <<pp[fid][1], pp[fid][2] + 1>>
                            ELSE <<t, 1>>
                       ELSE pp[f]]
    IN  [f \in {g \in DOMAIN counted : ~Stale(counted[g], t)} |-> counted[f]]

\* the clamping of execute_swipe, "max(0, min(v, limit))"
Clamp(v, limit) == Max(0, Min(v, limit))

\* the arguments execute_swipe passes to MouseController.perform_swipe;
\* duration in microseconds
SwipeCall(fruit, hazards, rapid) ==
    LET span == adjust_swipe_for_bombs(fruit.center[1], fruit.center[2],
                                       hazards)
    IN  [kind |-> "SWIPE",
         start_x |-> RegionLeft + Clamp(span[1], frame_width),
         end_x |-> RegionLeft + Clamp(span[2], frame_width),
         y |-> RegionTop + Clamp(fruit.center[2], frame_height),
         duration |-> IF rapid
                      THEN (swipe_duration * RapidFactorNum) \div RapidFactorDen
                      ELSE swipe_duration,
         target |-> fruit]

NoSwipe == [kind |-> "WAIT"]

\* the detection list of a frame: dicts with a "type" key; the detector
\* reports every object with a confidence
Detections(fruits, hazards) ==
    [i \in 1..(Len(fruits) + Len(hazards)) |->
        IF i <= Len(fruits)
        THEN [type |-> "fruit", center |-> fruits[i].center,
              confidence |-> fruits[i].confidence]
        ELSE [type |-> "bomb", center |-> hazards[i - Len(fruits)].center,
              confidence |-> 100]]

\* the detections of one type, in list order
RECURSIVE OfType(_, _)
OfType(detections, type) ==
    IF detections = <<>> THEN <<>>
    ELSE (IF Head(detections).type = type THEN <<Head(detections)>> ELSE <<>>)
         \o OfType(Tail(detections), type)

\* mutant: every detection is handed on as a fruit
separate_all_as_fruits(detections) ==
    [fruits |-> [i \in 1..Len(detections) |->
                    [center |-> detections[i].center,
                     confidence |-> detections[i].confidence]],
     bombs |-> [i \in 1..Len(OfType(detections, "bomb")) |->
                   [center |-> OfType(detections, "bomb")[i].center]]]

\* separate_fruits_bombs; the model keeps the keys it reads
separate_fruits_bombs(detections) ==
    [fruits |-> [i \in 1..Len(OfType(detections, "fruit")) |->
                    [center |-> OfType(detections, "fruit")[i].center,
                     confidence |-> OfType(detections, "fruit")[i].confidence]],
     bombs |-> [i \in 1..Len(OfType(detections, "bomb")) |->
                   [center |-> OfType(detections, "bomb")[i].center]]]

\* targeted_fruits: copies with center = predicted_pos
Targeted(updated) ==
    [i \in 1..Len(updated) |->
        [updated[i] EXCEPT !.center = updated[i].predicted_pos]]

----------------------------------------------------------------------------
(* MLStrategy *)

\* "current_time - track_data["last_seen"] < 0.8"
MLRecent(track, t) == t - track.last_seen < MLRecency

\* the last element of track["positions"]
MLLastPos(track) == track.positions[Len(track.positions)]

\* the inner loop of _assign_ids_to_fruits over fruit_tracks.items(), in
\* key order (keys are inserted in ascending order); matched = 0 stands for
\* None with min_distance = inf; distances are compared by their squares
RECURSIVE ClosestTrack(_, _, _, _, _, _)
ClosestTrack(tracks, ids, pos, t, matched, min_d2) ==
    IF ids = <<>> THEN matched
    ELSE LET id == Head(ids)
             d2 == Dist2(pos, MLLastPos(tracks[id]))
         IN  IF /\ MLRecent(tracks[id], t)
                /\ d2 < MLThreshold * MLThreshold
                /\ (matched = 0 \/ d2 < min_d2)
             THEN ClosestTrack(tracks, Tail(ids), pos, t, id, d2)
             ELSE ClosestTrack(tracks, Tail(ids), pos, t, matched, min_d2)

\* append to a deque(maxlen = max_track_history)
MLAppend(positions, pos) ==
    IF Len(positions) >= max_track_history
    THEN Tail(positions) \o <<pos>>
    ELSE Append(positions, pos)

\* the outer loop of _assign_ids_to_fruits from fruit i on; a later fruit
\* sees the tracks as the earlier fruits of the frame left them
RECURSIVE AssignLoop(_, _, _, _, _, _)
AssignLoop(tracks, counter, fruits, i, t, updated) ==
    IF i > Len(fruits)
    THEN [tracks |-> tracks, counter |-> counter, updated |-> updated]
    ELSE LET pos == fruits[i].center
             matched_id == ClosestTrack(tracks, SortedSeq(DOMAIN tracks),
                                        pos, t, 0, 0)
         IN  IF matched_id # 0
             THEN AssignLoop(
                      [tracks EXCEPT ![matched_id] =
                          [positions |-> MLAppend(@.positions, pos),
                           last_seen |-> t,
                           first_seen |-> @.first_seen]],
                      counter, fruits, i + 1, t,
                      Append(updated, [center |-> pos,
                                       confidence |-> fruits[i].confidence,
                                       track_id |-> matched_id]))
             ELSE AssignLoop(
                      [id \in DOMAIN tracks \cup {counter + 1} |->
                          IF id = counter + 1
                          THEN [positions |-> <<pos>>, last_seen |-> t,
                                first_seen |-> t]
                          ELSE tracks[id]],
                      counter + 1, fruits, i + 1, t,
                      Append(updated, [center |-> pos,
                                       confidence |-> fruits[i].confidence,
                                       track_id |-> counter + 1]))

\* "Clean up old tracks" of _assign_ids_to_fruits
MLCleanOldTracks(tracks, t) ==
    [id \in {k \in DOMAIN tracks : ~(t - tracks[k].last_seen > MLCleanup)}
        |-> tracks[id]]

\* MLStrategy._assign_ids_to_fruits(current_fruits, current_time)
AssignIdsToFruits(tracks, counter, fruits, t) ==
    LET r == AssignLoop(tracks, counter, fruits, 1, t, <<>>)
    IN  [tracks |-> MLCleanOldTracks(r.tracks, t),
         counter |-> r.counter,
         updated |-> r.updated]

\* height_bucket = fruit["center"][1] // 40
HeightBucket(fruit) == fruit.center[2] \div HeightQuantum

\* height_groups[bucket]: the indices of the fruits of a bucket, in list order
HeightGroup(fruits, bucket) ==
    SortedSeq({i \in 1..Len(fruits) : HeightBucket(fruits[i]) = bucket})

\* the loop over height_groups, a dict in order of first appearance of each
\* bucket: the first one among the largest groups of at least two fruits;
\* <<>> stands for None
BestGroup(fruits) ==
    LET firsts == {i \in 1..Len(fruits) :
                      \A k \in 1..(i - 1) :
                          HeightBucket(fruits[k]) # HeightBucket(fruits[i])}
        size(i) == Len(HeightGroup(fruits, HeightBucket(fruits[i])))
        best == {i \in firsts :
                    /\ size(i) >= 2
                    /\ \A k \in firsts : size(k) <= size(i)
                    /\ \A k \in firsts : k < i => size(k) < size(i)}
    IN  IF best = {} THEN <<>>
        ELSE HeightGroup(fruits, HeightBucket(fruits[CHOOSE i \in best : TRUE]))

\* the sum of the y of the fruits of a group
RECURSIVE SumY(_, _)
SumY(fruits, group) ==
    IF group = <<>> THEN 0
    ELSE fruits[Head(group)].center[2] + SumY(fruits, Tail(group))

NoMultiSwipe == [kind |-> "NONE"]

\* MLStrategy._find_multi_fruit_swipe for a strategy of the frame's width;
\* avg_y is an exact rational
find_multi_fruit_swipe(fruits) ==
    IF Len(fruits) < 2 \/ BestGroup(fruits) = <<>> THEN NoMultiSwipe
    ELSE LET best_group == BestGroup(fruits)
             xs == {fruits[best_group[i]].center[1] :
                       i \in 1..Len(best_group)}
             min_x == CHOOSE x \in xs : \A z \in xs : x <= z
             max_x == CHOOSE x \in xs : \A z \in xs : x >= z
         IN  [kind |-> "MULTI",
              group |-> best_group,
              start_x |-> Max(0, min_x - swipe_margin),
              end_x |-> Min(frame_width, max_x + swipe_margin),
              avg_y |-> Rat(SumY(fruits, best_group), Len(best_group))]

----------------------------------------------------------------------------
(* Inputs *)

\* detection centres: A-B 30 px, B-C 30 px, A-C 60 px, A-D exactly 50 px,
\* E at least 60 px from all the others
PosA == <<400, 440>>
PosB == <<430, 440>>
PosC == <<460, 440>>
PosD == <<430, 480>>
PosE == <<520, 440>>
\* F is exactly 50 px from B and exactly 80 px from A
PosF == <<480, 440>>

Fruit(p) == [center |-> p, confidence |-> 100]

Bomb(p) == [center |-> p]

\* detection lists given to FruitTracker.update in SpecTracker
FruitLists ==
    UNION {[1..n -> {Fruit(p) : p \in {PosA, PosB, PosC}}] : n \in 0..2}
    \cup {<<Fruit(PosA), Fruit(PosD)>>, <<Fruit(PosC), Fruit(PosE)>>}

\* detection lists of SpecHist
HistFruitLists == {<<Fruit(PosA)>>, <<Fruit(PosB)>>}

\* clock advance between two update calls in SpecTracker, in ticks
Delays == {11, TrackTimeout, TrackTimeout + 1}

\* fruit and hazard lists of a frame of the run loop
BotFruitLists == {<<>>, <<Fruit(PosA)>>}

BombLists == {<<>>, <<Bomb(<<350, 440>>)>>}

\* clock advance between two iterations of the run loop, in ticks
BotDelays == {1, PersistTime + 1, RapidTime + 1}

\* ticks between the clock read of run and the one of update
Lags == {0}

----------------------------------------------------------------------------
(* MouseController *)

\* the four calls of _optimized_swipe (mouse.move, mouse.press, mouse.move,
\* mouse.release) and of _fallback_swipe (pyautogui.moveTo, mouseDown, moveTo,
\* mouseUp), in program order; the sleeps between them change no state
SwipeSteps(start, end) ==
    << [op |-> "move", to |-> start],
       [op |-> "press", to |-> start],
       [op |-> "move", to |-> end],
       [op |-> "release", to |-> end] >>

\* the mouse after a library call that returns: st is
\* [cursor, down, events]
MouseStep(st, step) ==
    IF step.op = "move" THEN [st EXCEPT !.cursor = step.to]
    ELSE [st EXCEPT !.down = (step.op = "press"),
                    !.events = Append(st.events, step.op)]

\* the body of a try block from call i on; the call numbered fail raises
\* without effect and ends the block, fail = 0 when no call raises
RECURSIVE TrySteps(_, _, _, _)
TrySteps(st, steps, i, fail) ==
    IF i > Len(steps) \/ i = fail THEN st
    ELSE TrySteps(MouseStep(st, steps[i]), steps, i + 1, fail)

\* _fallback_swipe: the except clause only prints
fallback_swipe(st, start, end, fail) ==
    TrySteps(st, SwipeSteps(start, end), 1, fail)

\* _optimized_swipe: the except clause calls _fallback_swipe
optimized_swipe(st, start, end, fail, fail_fallback) ==
    LET r == TrySteps(st, SwipeSteps(start, end), 1, fail)
    IN  IF fail = 0 THEN r ELSE fallback_swipe(r, start, end, fail_fallback)

\* perform_swipe
perform_swipe(available, st, start, end, fail, fail_fallback) ==
    IF available THEN optimized_swipe(st, start, end, fail, fail_fallback)
    ELSE fallback_swipe(st, start, end, fail_fallback)

\* endpoints of a swipe on the screen: the default swipe around the target
\* of the scenes at (400, 440) in the frame, the swipe that starts at the
\* berth of a hazard at x = 325, the swipe limited by the left edge of the
\* frame for a target at x = 30, and the swipe of a target left of the frame
SwipeEnds ==
    { << <<RegionLeft + 340, RegionTop + 440>>,
         <<RegionLeft + 460, RegionTop + 440>> >>,
      << <<RegionLeft + 350, RegionTop + 440>>,
         <<RegionLeft + 460, RegionTop + 440>> >>,
      << <<RegionLeft, RegionTop + 440>>,
         <<RegionLeft + 90, RegionTop + 440>> >>,
      << <<RegionLeft, RegionTop + 438>>,
         <<RegionLeft, RegionTop + 438>> >> }

\* the call of a try block that raises, 0 for none
FailPoints == 0..4

----------------------------------------------------------------------------
(* Actions *)

\* the state after construction, but for mouse_available
InitObjects ==
    /\ clock = StartTime
    /\ fruit_history = <<>>
    /\ next_track_id = 0
    /\ current_fruits = <<>>
    /\ update_time = 0
    /\ assigned = <<>>
    /\ updated_fruits = <<>>
    /\ pc = "running"
    /\ iterations = 0
    /\ frame_counter = 0
    /\ last_swipe_time = 0
    /\ total_swipes = 0
    /\ potential_pomegranates = <<>>
    /\ rapid_mode = FALSE
    /\ rapid_mode_end_time = 0
    /\ frame_time = 0
    /\ frame_bombs = <<>>
    /\ is_rapid_mode = FALSE
    /\ action = NoSwipe
    /\ fruit_tracks = <<>>
    /\ track_id_counter = 0
    /\ ml_fruits = <<>>
    /\ ml_updated = <<>>
    /\ button_down = FALSE
    /\ cursor = <<0, 0>>
    /\ mouse_events = <<>>
    /\ swipe_calls = 0

\* construction where "import mouse" succeeds
Init == InitObjects /\ mouse_available = TRUE

\* construction with either outcome of "import mouse"
InitMouse == InitObjects /\ mouse_available \in BOOLEAN

\* one call of FruitTracker.update, dt ticks after the last clock read
TrackerUpdate(dt, fruits) ==
    /\ LET r == Update(fruit_history, next_track_id, fruits, clock + dt)
       IN  /\ r.next <= MaxIds
           /\ clock' = clock + dt
           /\ current_fruits' = fruits
           /\ update_time' = clock + dt
           /\ assigned' = r.assigned
           /\ updated_fruits' = r.updated
           /\ fruit_history' = r.history
           /\ next_track_id' = r.next
    /\ UNCHANGED <<bot_vars, ext_vars>>

\* update called one tick after the last call
TrackerUpdateHist(fruits) ==
    /\ clock + 1 <= MaxHistTime
    /\ TrackerUpdate(1, fruits)

\* mutant: every returned target is swiped
ShouldSwipeAnyTarget(best) == best.target # 0

\* "best_target and best_score > 0.5"
ShouldSwipe(best) ==
    best.target # 0 /\ best.score > (ScoreOne \div ActionDen) * ActionNum

\* the game-over branch of run is entered
GameOverChecked(targeted, game_over) ==
    Len(targeted) = 0 /\ frame_counter % GameOverEvery = 0 /\ game_over

\* mutant: track IDs come from a counter that another instance may advance
FrameHeadSharedCounter(t, lag, fruits, hazards) ==
    LET sep == separate_fruits_bombs(Detections(fruits, hazards))
        r == Update(fruit_history, next_track_id, sep.fruits, t + lag)
        c == check_pomegranate_behavior(Targeted(r.updated),
                 potential_pomegranates, rapid_mode, rapid_mode_end_time, t)
    IN  /\ pc = "running"
        /\ t + lag <= MaxTime
        /\ r.next <= MaxIds
        /\ iterations' = iterations + 1
        /\ current_fruits' = sep.fruits
        /\ update_time' = t + lag
        /\ assigned' = r.assigned
        /\ updated_fruits' = r.updated
        /\ fruit_history' = r.history
        /\ next_track_id' \in {r.next, r.next + 1}
        /\ frame_time' = t
        /\ frame_bombs' = sep.bombs
        /\ rapid_mode' = c.rapid_mode
        /\ rapid_mode_end_time' = c.rapid_mode_end_time
        /\ is_rapid_mode' = c.result
        /\ pc' = pc

\* the part of an iteration of run up to the game-over check: the tracker is
\* updated lag ticks after current_time was read, then the mode is checked
FrameHead(t, lag, fruits, hazards) ==
    LET sep == separate_fruits_bombs(Detections(fruits, hazards))
        r == Update(fruit_history, next_track_id, sep.fruits, t + lag)
        c == check_pomegranate_behavior(Targeted(r.updated),
                 potential_pomegranates, rapid_mode, rapid_mode_end_time, t)
    IN  /\ pc = "running"
        /\ t + lag <= MaxTime
        /\ r.next <= MaxIds
        /\ iterations' = iterations + 1
        /\ current_fruits' = sep.fruits
        /\ update_time' = t + lag
        /\ assigned' = r.assigned
        /\ updated_fruits' = r.updated
        /\ fruit_history' = r.history
        /\ next_track_id' = r.next
        /\ frame_time' = t
        /\ frame_bombs' = sep.bombs
        /\ rapid_mode' = c.rapid_mode
        /\ rapid_mode_end_time' = c.rapid_mode_end_time
        /\ is_rapid_mode' = c.result
        /\ pc' = pc

\* an iteration of run that reaches "Find the single best target"
Frame(dt, lag, fruits, hazards, game_over) ==
    LET t == clock + dt
        targeted == Targeted(updated_fruits')
        bombs == frame_bombs'
        best == find_best_swipe_target(targeted, bombs, t, last_swipe_time)
    IN  /\ FrameHead(t, lag, fruits, hazards)
        /\ ~GameOverChecked(targeted, game_over)
        /\ UNCHANGED ext_vars
        /\ clock' = t + lag
        /\ frame_counter' = frame_counter + 1
        /\ IF ShouldSwipe(best)
           THEN /\ action' = SwipeCall(targeted[best.target], bombs,
                                       is_rapid_mode')
                /\ potential_pomegranates' =
                       track_pomegranate_candidate(potential_pomegranates,
                                                   targeted[best.target], t)
                /\ total_swipes' = total_swipes + 1
                /\ last_swipe_time' = t
           ELSE /\ action' = NoSwipe
                /\ UNCHANGED <<potential_pomegranates, total_swipes,
                               last_swipe_time>>

\* an iteration of run that detects game over: sleep(2) and continue
GameOverPause(dt, lag, fruits, hazards) ==
    LET t == clock + dt
    IN  /\ FrameHead(t, lag, fruits, hazards)
        /\ GameOverChecked(Targeted(updated_fruits'), TRUE)
        /\ clock' = t + lag + GameOverSleep
        /\ action' = NoSwipe
        /\ UNCHANGED <<frame_counter, potential_pomegranates, total_swipes,
                       last_swipe_time, ext_vars>>

\* an iteration of run in which get_frame returns None
FrameSkipped(dt) ==
    /\ pc = "running"
    /\ clock + dt <= MaxTime
    /\ clock' = clock + dt
    /\ iterations' = iterations + 1
    /\ UNCHANGED <<tracker_vars, pc, frame_counter, last_swipe_time,
                   total_swipes, potential_pomegranates, rapid_mode,
                   rapid_mode_end_time, frame_time, frame_bombs, is_rapid_mode,
                   action, ext_vars>>

\* the failsafe (or any other exception) ends run
Failsafe ==
    /\ pc = "running"
    /\ pc' = "stopped"
    /\ UNCHANGED <<clock, tracker_vars, iterations, frame_counter,
                   last_swipe_time, total_swipes, potential_pomegranates,
                   rapid_mode, rapid_mode_end_time, frame_time, frame_bombs,
                   is_rapid_mode, action, ext_vars>>

NextTracker ==
    \E dt \in Delays, fruits \in FruitLists :
        clock + dt <= MaxUpdateTime /\ TrackerUpdate(dt, fruits)

SpecTracker == Init /\ [][NextTracker]_vars

\* update called once per tick with a single detection, so that one track
\* fills its history
NextHist == \E fruits \in HistFruitLists : TrackerUpdateHist(fruits)

SpecHist == Init /\ [][NextHist]_vars

\* the run loop: frames with and without a hazard
Next ==
    \/ \E dt \in BotDelays, lag \in Lags, fruits \in BotFruitLists,
          hazards \in BombLists, game_over \in BOOLEAN :
            iterations < MaxIterations
                /\ Frame(dt, lag, fruits, hazards, game_over)
    \/ \E dt \in BotDelays, lag \in Lags, fruits \in BotFruitLists,
          hazards \in BombLists :
            iterations < MaxIterations
                /\ GameOverPause(dt, lag, fruits, hazards)
    \/ \E dt \in BotDelays : iterations < MaxIterations /\ FrameSkipped(dt)
    \/ Failsafe

Spec == Init /\ [][Next]_vars

\* the run loop on frames without hazards, for more iterations
NextRapid ==
    \/ \E dt \in BotDelays, lag \in Lags, fruits \in BotFruitLists,
          game_over \in BOOLEAN :
            iterations < MaxRapidIterations
                /\ Frame(dt, lag, fruits, <<>>, game_over)
    \/ \E dt \in BotDelays, lag \in Lags, fruits \in BotFruitLists :
            iterations < MaxRapidIterations
                /\ GameOverPause(dt, lag, fruits, <<>>)
    \/ \E dt \in BotDelays :
            iterations < MaxRapidIterations /\ FrameSkipped(dt)
    \/ Failsafe

SpecRapid == Init /\ [][NextRapid]_vars

----------------------------------------------------------------------------
(* The run loop on frames that exercise targeting *)

\* a fruit detection with a confidence in percent
FruitConf(p, c) == [center |-> p, confidence |-> c]

\* the y closest to 55% of frame_height (0.55 * 808 = 444.4)
PreferredY == (11 * frame_height) \div 20

\* the target of the scenes, at the preferred height
PosT == <<400, PreferredY>>

\* frames <<fruits, hazards>>: the target alone, near the left and the right
\* edge of the frame and 5 px from the left edge, with a hazard to its left 75, 65 and 50 px away, with a
\* hazard 46 px below it, with a hazard 2 px to its left listed after and
\* before a far one, at the detector's lowest confidence with a hazard 75 px
\* away, and three fruits of one 40 px height bucket above the height window
Scenes ==
    { <<<<>>, <<>>>>,
      <<<<Fruit(PosT)>>, <<>>>>,
      <<<<Fruit(<<30, PreferredY>>)>>, <<>>>>,
      <<<<Fruit(<<950, PreferredY>>)>>, <<>>>>,
      <<<<Fruit(<<5, PreferredY>>)>>, <<>>>>,
      <<<<Fruit(PosT)>>, <<Bomb(<<325, PreferredY>>)>>>>,
      <<<<Fruit(PosT)>>, <<Bomb(<<335, PreferredY>>)>>>>,
      <<<<Fruit(PosT)>>, <<Bomb(<<350, PreferredY>>)>>>>,
      <<<<Fruit(PosT)>>, <<Bomb(<<400, 490>>)>>>>,
      <<<<Fruit(PosT)>>,
        <<Bomb(<<700, PreferredY>>), Bomb(<<398, PreferredY>>)>>>>,
      <<<<Fruit(PosT)>>,
        <<Bomb(<<398, PreferredY>>), Bomb(<<700, PreferredY>>)>>>>,
      <<<<FruitConf(PosT, 60)>>, <<Bomb(<<325, PreferredY>>)>>>>,
      <<<<Fruit(<<100, 300>>), Fruit(<<200, 300>>), Fruit(<<300, 300>>)>>,
        <<>>>> }

\* clock advance between two iterations in SpecTarget, in ticks
TargetDelays == {1, cooldown}

NextTarget ==
    \/ \E dt \in TargetDelays, lag \in Lags, scene \in Scenes,
          game_over \in BOOLEAN :
            iterations < MaxTargetIterations
                /\ Frame(dt, lag, scene[1], scene[2], game_over)
    \/ \E dt \in TargetDelays, lag \in Lags, scene \in Scenes :
            iterations < MaxTargetIterations
                /\ GameOverPause(dt, lag, scene[1], scene[2])
    \/ \E dt \in TargetDelays :
            iterations < MaxTargetIterations /\ FrameSkipped(dt)
    \/ Failsafe

SpecTarget == Init /\ [][NextTarget]_vars

----------------------------------------------------------------------------
(* FruitTracker.update on a slowly moving fruit *)

\* the fruit is detected at x = 400 and one of these y
PredictYs == {440, 441, 444}

PredictFruitLists == {<<Fruit(<<400, y>>)>> : y \in PredictYs}

\* what time.time() advanced by between two update calls, in ticks: the
\* clock may return the same value twice and may be set back
PredictDelays == {-1, 0, 1, 2}

TrackerUpdatePredict(dt, fruits) ==
    /\ \A id \in DOMAIN fruit_history : Len(fruit_history[id]) < MaxSamples
    /\ clock + dt >= 0
    /\ TrackerUpdate(dt, fruits)

NextPredict ==
    \E dt \in PredictDelays, fruits \in PredictFruitLists :
        TrackerUpdatePredict(dt, fruits)

SpecPredict == Init /\ [][NextPredict]_vars

----------------------------------------------------------------------------
(* MLStrategy._assign_ids_to_fruits on the detection lists of SpecTracker *)

\* find_best_swipe returns before tracking when the list is empty
MLFruitLists == FruitLists \ {<<>>}

\* clock advance between two calls in SpecML, in ticks
MLDelays == {MLRecency - 1, MLRecency, MLCleanup + 1}

\* one call of _assign_ids_to_fruits, dt ticks after the last clock read
MLAssign(dt, fruits) ==
    LET r == AssignIdsToFruits(fruit_tracks, track_id_counter, fruits,
                               clock + dt)
    IN  /\ r.counter <= MaxMLIds
        /\ clock' = clock + dt
        /\ fruit_tracks' = r.tracks
        /\ track_id_counter' = r.counter
        /\ ml_fruits' = fruits
        /\ ml_updated' = r.updated
        /\ UNCHANGED <<tracker_vars, bot_vars, mouse_vars>>

NextML ==
    \E dt \in MLDelays, fruits \in MLFruitLists :
        clock + dt <= MaxMLTime /\ MLAssign(dt, fruits)

SpecML == Init /\ [][NextML]_vars

----------------------------------------------------------------------------
(* The run loop on frames with a hazard close to the target *)

\* iterations of the run loop in SpecShape
MaxShapeIterations == 2

\* a hazard 16 px below the preferred height
NearBelow == PreferredY + 16

\* frames <<fruits, hazards>>: the target with a hazard 75 px to its left,
\* 75 px to its right, 2 px to its left, 30 px to its right and 16 px below
\* it at the same x, with a hazard on either side 70 px and 65 px away, and
\* an empty frame
ShapeScenes ==
    { <<<<Fruit(PosT)>>, <<Bomb(<<325, PreferredY>>)>>>>,
      <<<<Fruit(PosT)>>, <<Bomb(<<475, NearBelow>>)>>>>,
      <<<<Fruit(PosT)>>, <<Bomb(<<398, PreferredY>>)>>>>,
      <<<<Fruit(PosT)>>, <<Bomb(<<430, NearBelow>>)>>>>,
      <<<<Fruit(PosT)>>, <<Bomb(<<400, NearBelow>>)>>>>,
      <<<<Fruit(PosT)>>,
        <<Bomb(<<330, PreferredY>>), Bomb(<<470, PreferredY>>)>>>>,
      <<<<Fruit(PosT)>>,
        <<Bomb(<<335, PreferredY>>), Bomb(<<465, PreferredY>>)>>>>,
      <<<<>>, <<>>>> }

\* clock advance between two iterations in SpecShape, in ticks
ShapeDelays == {1, cooldown}

NextShape ==
    \/ \E dt \in ShapeDelays, lag \in Lags, scene \in ShapeScenes,
          game_over \in BOOLEAN :
            iterations < MaxShapeIterations
                /\ Frame(dt, lag, scene[1], scene[2], game_over)
    \/ \E dt \in ShapeDelays, lag \in Lags, scene \in ShapeScenes :
            iterations < MaxShapeIterations
                /\ GameOverPause(dt, lag, scene[1], scene[2])
    \/ \E dt \in ShapeDelays :
            iterations < MaxShapeIterations /\ FrameSkipped(dt)
    \/ Failsafe

SpecShape == Init /\ [][NextShape]_vars

----------------------------------------------------------------------------
(* The run loop on a fruit leaving the frame across its left edge *)

\* frames <<fruits, hazards>>: a fruit 40 px and 10 px from the left edge
\* with a hazard on the edge 16 px below it, the target of SpecTarget with a
\* hazard 75 px to its left, and an empty frame
EdgeScenes ==
    { <<<<Fruit(<<40, PreferredY>>)>>, <<Bomb(<<0, 460>>)>>>>,
      <<<<Fruit(<<10, PreferredY>>)>>, <<Bomb(<<0, 460>>)>>>>,
      <<<<Fruit(PosT)>>, <<Bomb(<<325, PreferredY>>)>>>>,
      <<<<>>, <<>>>> }

\* clock advance between two iterations in SpecEdge, in ticks
EdgeDelays == {1, cooldown}

NextEdge ==
    \/ \E dt \in EdgeDelays, lag \in Lags, scene \in EdgeScenes,
          game_over \in BOOLEAN :
            iterations < MaxEdgeIterations
                /\ Frame(dt, lag, scene[1], scene[2], game_over)
    \/ \E dt \in EdgeDelays, lag \in Lags, scene \in EdgeScenes :
            iterations < MaxEdgeIterations
                /\ GameOverPause(dt, lag, scene[1], scene[2])
    \/ \E dt \in EdgeDelays :
            iterations < MaxEdgeIterations /\ FrameSkipped(dt)
    \/ Failsafe

SpecEdge == Init /\ [][NextEdge]_vars

----------------------------------------------------------------------------
(* MouseController.perform_swipe with library calls that may raise *)

\* one call of perform_swipe from start to end
PerformSwipe(start, end, fail, fail_fallback) ==
    LET r == perform_swipe(mouse_available,
                           [cursor |-> cursor, down |-> button_down,
                            events |-> <<>>],
                           start, end, fail, fail_fallback)
    IN  /\ cursor' = r.cursor
        /\ button_down' = r.down
        /\ mouse_events' = r.events
        /\ swipe_calls' = swipe_calls + 1
        /\ UNCHANGED <<clock, tracker_vars, bot_vars, ml_vars,
                       mouse_available>>

NextMouse ==
    \E ends \in SwipeEnds, fail \in FailPoints, fail_fallback \in FailPoints :
        swipe_calls < MaxSwipeCalls
            /\ PerformSwipe(ends[1], ends[2], fail, fail_fallback)

SpecMouse == InitMouse /\ [][NextMouse]_vars

----------------------------------------------------------------------------
(* The two association passes, FruitTracker.update and                     *)
(* MLStrategy._assign_ids_to_fruits, on detections at threshold distances  *)

AssocFruitLists ==
    { <<Fruit(PosA)>>, <<Fruit(PosB)>>, <<Fruit(PosD)>>, <<Fruit(PosF)>>,
      <<Fruit(PosA), Fruit(PosF)>>, <<Fruit(PosB), Fruit(PosD)>> }

\* clock advance between two passes in SpecAssoc, in ticks
AssocDelays == {11}

NextAssoc ==
    \/ \E dt \in AssocDelays, fruits \in AssocFruitLists :
           clock + dt <= MaxAssocTime /\ TrackerUpdate(dt, fruits)
    \/ \E dt \in AssocDelays, fruits \in AssocFruitLists :
           clock + dt <= MaxAssocTime /\ MLAssign(dt, fruits)

SpecAssoc == Init /\ [][NextAssoc]_vars

----------------------------------------------------------------------------
(* Properties *)

\* a step of the run loop that processed a frame (every delay is positive)
FrameProcessed == frame_time' # frame_time

\* the time of the last history entry of a track
LastSeen(h) == h[Len(h)][1]

\* the tracks of a table whose last position is within the association
\* distance of a position
NearTracks(hist, pos) ==
    {id \in DOMAIN hist : Dist2(LastPos(hist[id]), pos) < AssocThreshold * AssocThreshold}

\* the pairs of an assignment, as a set
Pairs(asg) == {asg[i] : i \in 1..Len(asg)}

\* C1: two swipes emitted one after the other are at least cooldown apart:
\* a frame swipes only when its timestamp is at least cooldown after
\* last_swipe_time, and last_swipe_time is the timestamp of the last frame
\* that swiped (it changes in no other step).
C1_SwipesCooldownApart ==
    [][/\ total_swipes' # total_swipes =>
            /\ total_swipes' = total_swipes + 1
            /\ action'.kind = "SWIPE"
            /\ frame_time' - last_swipe_time >= cooldown
            /\ last_swipe_time' = frame_time'
       /\ total_swipes' = total_swipes => last_swipe_time' = last_swipe_time
      ]_vars

\* C1 witness: a second swipe exactly cooldown after the first one, whose
\* time the fingerprint table still holds
C1_Witness ==
    /\ total_swipes >= 2
    /\ action.kind = "SWIPE"
    /\ last_swipe_time = frame_time
    /\ \E f \in DOMAIN potential_pomegranates :
           potential_pomegranates[f] = <<frame_time - cooldown, 1>>

\* C2: in one update call every detection is assigned to at most one track
\* and the returned list has exactly one entry per input detection.
C2_DetectionMatchedOnce ==
    /\ \A i, k \in 1..Len(assigned) :
           assigned[i][2] = assigned[k][2] => i = k
    /\ Len(updated_fruits) = Len(current_fruits)

\* the premise of C3 for detection j and track id of the table before the
\* call: id is the only track within the association distance of j, and it
\* was seen within the recency window before the call at time t
OnlyNearTrack(hist, fruits, j, id, t) ==
    /\ NearTracks(hist, fruits[j].center) = {id}
    /\ t - LastSeen(hist[id]) <= TrackTimeout

\* the conclusion of C3: j extends the history of id and gets no new ID
ExtendsTrack(hist, hist1, asg, fruits, j, id, t) ==
    /\ <<id, j>> \in Pairs(asg)
    /\ \A p \in Pairs(asg) : p[2] = j => p[1] = id
    /\ id \in DOMAIN hist1
    /\ hist1[id] = DequeAppend(hist[id],
                       <<t, fruits[j].center[1], fruits[j].center[2]>>)

\* C3 as claimed: a detection within the association distance of exactly
\* one track, seen within the recency window, extends that track and gets
\* no new ID, whatever other detections the frame contains.
C3_Original ==
    [][\A j \in 1..Len(current_fruits') : \A id \in DOMAIN fruit_history :
           OnlyNearTrack(fruit_history, current_fruits', j, id, update_time')
           => ExtendsTrack(fruit_history, fruit_history', assigned',
                           current_fruits', j, id, update_time')
      ]_vars

\* detection j is the one track id selects: no detection of the frame is
\* closer to the last position of id, and none equally close comes earlier
SelectedBy(hist, fruits, j, id) ==
    /\ \A k \in 1..Len(fruits) :
           Dist2(LastPos(hist[id]), fruits[j].center)
               <= Dist2(LastPos(hist[id]), fruits[k].center)
    /\ \A k \in 1..(j - 1) :
           Dist2(LastPos(hist[id]), fruits[k].center)
               > Dist2(LastPos(hist[id]), fruits[j].center)

\* C3 amended: a detection within the association distance of exactly one
\* track, seen within the recency window, extends that track and gets no new
\* ID, provided it is the detection closest to that track (the first one in
\* list order among equally close ones).
C3_ClosestExtendsTrack ==
    [][\A j \in 1..Len(current_fruits') : \A id \in DOMAIN fruit_history :
           (/\ OnlyNearTrack(fruit_history, current_fruits', j, id,
                             update_time')
            /\ SelectedBy(fruit_history, current_fruits', j, id))
           => ExtendsTrack(fruit_history, fruit_history', assigned',
                           current_fruits', j, id, update_time')
      ]_vars

\* C3 witness: track 0 at A was extended by the detection at B of a frame
\* that held a second detection
C3_Witness ==
    /\ Len(current_fruits) = 2
    /\ <<0, 1>> \in Pairs(assigned)
    /\ 0 \in DOMAIN fruit_history
    /\ Len(fruit_history[0]) = 2
    /\ <<fruit_history[0][1][2], fruit_history[0][1][3]>> = PosA
    /\ LastPos(fruit_history[0]) = PosB
    /\ \A p \in Pairs(assigned) : p[2] = 1 => p[1] = 0

\* the IDs an update call gave to new tracks
NewIds(hist, asg) == {p[1] : p \in {q \in Pairs(asg) : q[1] \notin DOMAIN hist}}

\* C4: every track of the table has an ID below the counter, the counter
\* never decreases, and an update call gives its new tracks the IDs from the
\* old counter up to the new one, one each: a new ID is greater than every
\* ID allocated before, also after the table has become empty.
C4_IdsNeverReused ==
    [][/\ \A id \in DOMAIN fruit_history : id < next_track_id
       /\ next_track_id' >= next_track_id
       /\ NewIds(fruit_history, assigned')
              = next_track_id..(next_track_id' - 1)
       /\ \A i, k \in 1..Len(assigned') :
              assigned'[i][1] = assigned'[k][1] => i = k
       /\ \A id \in DOMAIN fruit_history' : id < next_track_id'
      ]_vars

\* C4 witness: ID 1 is given to a detection at B when only ID 0 had been
\* allocated, to a track that was within 30 px of B: the table was empty
C4_Witness ==
    /\ current_fruits = <<Fruit(PosB)>>
    /\ assigned = <<<<1, 1>>>>
    /\ next_track_id = 2
    /\ DOMAIN fruit_history = {1}

\* detection j is farther than the association threshold from every track
FarFromAll(hist, fruits, j) ==
    \A id \in DOMAIN hist :
        Dist2(LastPos(hist[id]), fruits[j].center)
            > AssocThreshold * AssocThreshold

\* the ID the assignment gives detection j, when it gives exactly one
IdOf(asg, j) == (CHOOSE p \in Pairs(asg) : p[2] = j)[1]

\* C5: a detection farther than the threshold from every track creates
\* exactly one new track, whose history is the single entry of this frame;
\* two such detections get distinct new IDs, increasing in detection order.
C5_FarDetectionsNewTracks ==
    [][\A j \in 1..Len(current_fruits') :
           FarFromAll(fruit_history, current_fruits', j) =>
               /\ Cardinality({p \in Pairs(assigned') : p[2] = j}) = 1
               /\ IdOf(assigned', j) \notin DOMAIN fruit_history
               /\ IdOf(assigned', j) >= next_track_id
               /\ IdOf(assigned', j) \in DOMAIN fruit_history'
               /\ fruit_history'[IdOf(assigned', j)]
                      = <<<<update_time', current_fruits'[j].center[1],
                            current_fruits'[j].center[2]>>>>
               /\ \A k \in 1..(j - 1) :
                      FarFromAll(fruit_history, current_fruits', k)
                          => IdOf(assigned', k) < IdOf(assigned', j)
      ]_vars

\* C5 witness: two detections far from the one live track got IDs 1 and 2
C5_Witness ==
    /\ assigned = <<<<1, 1>>, <<2, 2>>>>
    /\ DOMAIN fruit_history = {0, 1, 2}
    /\ Len(fruit_history[1]) = 1
    /\ Len(fruit_history[2]) = 1

\* C6: an update call with zero detections keeps exactly the tracks whose
\* last entry is at most the expiry window old and removes the others; and
\* no update call removes a track whose last entry is at most the expiry
\* window old.
C6_ExpiryOnEmptyFrames ==
    [][/\ current_fruits' = <<>> =>
              fruit_history' =
                  [id \in {i \in DOMAIN fruit_history :
                              update_time' - LastSeen(fruit_history[i])
                                  <= TrackTimeout}
                      |-> fruit_history[id]]
       /\ \A id \in DOMAIN fruit_history :
              update_time' - LastSeen(fruit_history[id]) <= TrackTimeout
                  => id \in DOMAIN fruit_history'
      ]_vars

\* C6 witness: after a frame with zero detections track 1 is kept at an age
\* of exactly the expiry window while the older track 0 is gone
C6_Witness ==
    /\ current_fruits = <<>>
    /\ DOMAIN fruit_history = {1}
    /\ update_time - LastSeen(fruit_history[1]) = TrackTimeout

\* C7: no detection is matched to a track whose last entry is older than the
\* recency window: two consecutive entries of a history are never more than
\* the window apart.
C7_NoStaleMatch ==
    \A id \in DOMAIN fruit_history :
        \A i \in 1..(Len(fruit_history[id]) - 1) :
            fruit_history[id][i + 1][1] - fruit_history[id][i][1]
                <= TrackTimeout

\* C8: after every update call every track has between 1 and max_history
\* entries, and an append to a full history drops its oldest entry.
C8_HistoryBounded ==
    [][/\ \A id \in DOMAIN fruit_history' :
              /\ Len(fruit_history'[id]) >= 1
              /\ Len(fruit_history'[id]) <= max_history
       /\ \A id \in DOMAIN fruit_history \cap DOMAIN fruit_history' :
              (/\ Len(fruit_history[id]) = max_history
               /\ fruit_history'[id] # fruit_history[id])
              => /\ Len(fruit_history'[id]) = max_history
                 /\ SubSeq(fruit_history'[id], 1, max_history - 1)
                        = Tail(fruit_history[id])
                 /\ LastSeen(fruit_history'[id]) = update_time'
      ]_vars

\* C8 witness: track 0 holds max_history entries and no longer its first one
C8_Witness ==
    /\ 0 \in DOMAIN fruit_history
    /\ Len(fruit_history[0]) = max_history
    /\ fruit_history[0][1][1] > StartTime + 1

\* C9: rapid mode that was active with expiry E is inactive at the end of
\* the first frame whose timestamp is greater than E.
C9_RapidEndsAtExpiry ==
    [][(rapid_mode /\ FrameProcessed /\ frame_time' > rapid_mode_end_time)
           => ~rapid_mode'
      ]_vars

\* C10: while rapid mode is active, a frame whose timestamp is not past the
\* expiry leaves the mode active and the expiry unchanged, and so does every
\* step that processes no frame: the mode ends, and its expiry changes, only
\* in a frame with current_time > rapid_mode_end_time.
C10_RapidNeverEndsEarly ==
    [][rapid_mode =>
           \/ FrameProcessed /\ frame_time' > rapid_mode_end_time
           \/ rapid_mode' /\ rapid_mode_end_time' = rapid_mode_end_time
      ]_vars

\* C10 witness: a frame after the activating one (the expiry is less than
\* RapidTime ahead) observes a qualifying fingerprint while the mode is
\* active
C10_Witness ==
    /\ rapid_mode
    /\ frame_time <= rapid_mode_end_time
    /\ frame_time > rapid_mode_end_time - RapidTime
    /\ PomegranateSeen(Targeted(updated_fruits), potential_pomegranates,
                       frame_time)

\* C11: at the end of every frame the run loop processed, swipe or not, no
\* entry of potential_pomegranates has a recorded time more than the purge
\* window before the frame's timestamp.
C11_NoStaleFingerprints ==
    \A f \in DOMAIN potential_pomegranates :
        frame_time - potential_pomegranates[f][1] <= PurgeTime

\* the targeted fruits of the frame a step processes, and what
\* find_best_swipe_target returns for them in that frame
FrameTargets == Targeted(updated_fruits')

FrameBest ==
    find_best_swipe_target(FrameTargets, frame_bombs', frame_time',
                           last_swipe_time)

\* C12: the target find_best_swipe_target returns in a frame has a safety
\* score of at least 0.6 against the hazards of the frame, and no hazard of
\* the frame is less than 70 px from it horizontally and less than 30 px
\* vertically.
C12_TargetSafe ==
    [][(FrameProcessed /\ FrameBest.target # 0) =>
           LET fruit == FrameTargets[FrameBest.target]
           IN  /\ calculate_safety_score(fruit, frame_bombs') >= MinSafety
               /\ \A i \in 1..Len(frame_bombs') :
                      \/ Abs(fruit.center[1] - frame_bombs'[i].center[1])
                             >= PathX
                      \/ Abs(fruit.center[2] - frame_bombs'[i].center[2])
                             >= PathY
      ]_vars

\* C12 witness: a target was returned, and swiped, in a frame whose hazard
\* is 75 px to its left at the same height (safety score 0.75)
C12_Witness ==
    /\ action.kind = "SWIPE"
    /\ Len(frame_bombs) = 1
    /\ frame_bombs[1].center[2] = action.target.center[2]
    /\ action.target.center[1] - frame_bombs[1].center[1] = 75
    /\ calculate_safety_score(action.target, frame_bombs) = 750

\* x lies strictly between lo and hi
StrictlyBetween(x, lo, hi) == lo < x /\ x < hi

\* hazard b is at the height of fruit f and horizontally strictly between f
\* and an endpoint of the swipe <<start, end>>
InSwipe(f, b, start, end) ==
    /\ b.center[2] = f.center[2]
    /\ \/ StrictlyBetween(b.center[1], start, f.center[1])
       \/ StrictlyBetween(b.center[1], f.center[1], end)

\* C13: calculate_safety_score is exactly 0 for a target when some hazard of
\* the list is at the target's height and horizontally strictly between the
\* target and an endpoint of the swipe adjust_swipe_for_bombs shapes for it,
\* or strictly between the target and a point swipe_length to its left or
\* right, whatever the other hazards of the list and their order.
C13_CorridorScoreZero ==
    \A i \in 1..Len(updated_fruits) : \A k \in 1..Len(frame_bombs) :
        LET f == Targeted(updated_fruits)[i]
            span == adjust_swipe_for_bombs(f.center[1], f.center[2],
                                           frame_bombs)
        IN  (\/ InSwipe(f, frame_bombs[k], span[1], span[2])
             \/ InSwipe(f, frame_bombs[k], f.center[1] - swipe_length,
                        f.center[1] + swipe_length))
            => calculate_safety_score(f, frame_bombs) = 0

\* C13 witness: the cooldown has elapsed, the first hazard of the list is
\* more than 100 px away, the second one lies between the target and the
\* start of the swipe shaped for it, and the frame emits no swipe
C13_Witness ==
    /\ Len(updated_fruits) = 1
    /\ Len(frame_bombs) = 2
    /\ ~CooldownActive(frame_time, last_swipe_time)
    /\ action.kind = "WAIT"
    /\ LET f == Targeted(updated_fruits)[1]
           span == adjust_swipe_for_bombs(f.center[1], f.center[2],
                                          frame_bombs)
       IN  /\ Abs(frame_bombs[1].center[1] - f.center[1]) > 100
           /\ InSwipe(f, frame_bombs[2], span[1], span[2])
           /\ calculate_safety_score(f, frame_bombs) = 0

\* the premise of C14 for the frame a step processes: one target, at the
\* preferred height, with confidence 1.0, no hazards, the cooldown elapsed
SingleTargetFrame ==
    /\ FrameProcessed
    /\ Len(FrameTargets) = 1
    /\ FrameTargets[1].center[2] = PreferredY
    /\ FrameTargets[1].confidence = 100
    /\ frame_bombs' = <<>>
    /\ ~CooldownActive(frame_time', last_swipe_time)

\* the frame emits a swipe from start to end, in frame coordinates (the call
\* to perform_swipe adds the left edge of the capture region)
SwipeSpans(start, end) ==
    /\ action'.kind = "SWIPE"
    /\ action'.start_x = RegionLeft + start
    /\ action'.end_x = RegionLeft + end

\* C14 as claimed: for every predicted x, a single target at the preferred
\* height with confidence 1.0, no hazards and the cooldown elapsed is swiped
\* from predicted_x - 60 to predicted_x + 60.
C14_Original ==
    [][SingleTargetFrame =>
           SwipeSpans(FrameTargets[1].center[1] - swipe_length,
                      FrameTargets[1].center[1] + swipe_length)
      ]_vars

\* C14 amended: the same, for every predicted x at least swipe_length from
\* both vertical edges of the frame (nearer to an edge, execute_swipe limits
\* the endpoint to the frame).
C14_SymmetricSwipe ==
    [][(/\ SingleTargetFrame
        /\ FrameTargets[1].center[1] >= swipe_length
        /\ FrameTargets[1].center[1] <= frame_width - swipe_length) =>
           SwipeSpans(FrameTargets[1].center[1] - swipe_length,
                      FrameTargets[1].center[1] + swipe_length)
      ]_vars

\* C14 witness: the target at x = 400, alone in a frame without hazards, was
\* swiped from 340 to 460
C14_Witness ==
    /\ Len(updated_fruits) = 1
    /\ frame_bombs = <<>>
    /\ action.kind = "SWIPE"
    /\ action.target.center = PosT
    /\ action.target.confidence = 100
    /\ action.start_x = RegionLeft + 340
    /\ action.end_x = RegionLeft + 460

\* hazard k of the list is at the height of fruit f, to its left and less
\* than the adjustment reach away, and no other hazard of the list is within
\* that reach of f in its row
LeftHazard(f, hazards, k) ==
    /\ hazards[k].center[2] = f.center[2]
    /\ hazards[k].center[1] < f.center[1]
    /\ f.center[1] - hazards[k].center[1] < AdjustReach
    /\ \A l \in 1..Len(hazards) :
           l # k => \/ Abs(f.center[1] - hazards[l].center[1]) >= AdjustReach
                    \/ Abs(f.center[2] - hazards[l].center[2]) >= PathY

\* the span C15 states for fruit f and a hazard at hazard_x to its left
BerthSpan(f, hazard_x) ==
    IF (f.center[1] + swipe_length) - (hazard_x + Berth) < MinSwipe
    THEN <<f.center[1] - MinSwipe, f.center[1] + MinSwipe>>
    ELSE <<hazard_x + Berth, f.center[1] + swipe_length>>

\* C15 as claimed: in a frame with one target, in the height window and with
\* the cooldown elapsed, and a hazard at its height less than 80 px to its
\* left, the engine emits a swipe that starts at the hazard's x plus the
\* berth, or the minimal symmetric swipe when that leaves less than 40 px.
C15_Original ==
    [][(/\ FrameProcessed
        /\ Len(FrameTargets) = 1
        /\ FrameTargets[1].confidence = 100
        /\ InHeightWindow(FrameTargets[1].center[2])
        /\ ~CooldownActive(frame_time', last_swipe_time)
        /\ Len(frame_bombs') = 1
        /\ LeftHazard(FrameTargets[1], frame_bombs', 1)) =>
           LET span == BerthSpan(FrameTargets[1], frame_bombs'[1].center[1])
           IN  SwipeSpans(Clamp(span[1], frame_width),
                          Clamp(span[2], frame_width))
      ]_vars

\* C15 amended: every swipe the engine emits for a target with a hazard at
\* its height less than 80 px to its left (and no other hazard in reach)
\* starts at the hazard's x plus the berth and ends swipe_length right of
\* the target, within the frame; and for every target and such a hazard of
\* a frame adjust_swipe_for_bombs yields that span, or the minimal symmetric
\* one when less than 40 px are left.
C15_BerthLeftOfTarget ==
    [][FrameProcessed =>
           /\ \A k \in 1..Len(frame_bombs') :
                  (/\ action'.kind = "SWIPE"
                   /\ LeftHazard(action'.target, frame_bombs', k)) =>
                      SwipeSpans(
                          Clamp(frame_bombs'[k].center[1] + Berth, frame_width),
                          Clamp(action'.target.center[1] + swipe_length,
                                frame_width))
           /\ \A i \in 1..Len(FrameTargets) : \A k \in 1..Len(frame_bombs') :
                  LeftHazard(FrameTargets[i], frame_bombs', k) =>
                      adjust_swipe_for_bombs(FrameTargets[i].center[1],
                                             FrameTargets[i].center[2],
                                             frame_bombs')
                          = BerthSpan(FrameTargets[i],
                                      frame_bombs'[k].center[1])
      ]_vars

\* C15 witness: the target at x = 400 was swiped from 350, the berth right of
\* the hazard at x = 325, to 460
C15_Witness ==
    /\ action.kind = "SWIPE"
    /\ action.target.center = PosT
    /\ frame_bombs = <<Bomb(<<325, PreferredY>>)>>
    /\ action.start_x = RegionLeft + 325 + Berth
    /\ action.end_x = RegionLeft + 460

\* C16: a frame with three targets of one 40 px height bucket in which no
\* single target is selected emits one swipe from the smallest target x - 50
\* to the largest target x + 50, limited to the frame width, at the average
\* y of the three targets.
C16_MultiTargetSwipe ==
    [][(/\ FrameProcessed
        /\ Len(FrameTargets) = 3
        /\ \A i \in 1..3 :
               HeightBucket(FrameTargets[i]) = HeightBucket(FrameTargets[1])
        /\ ~ShouldSwipe(FrameBest)) =>
           LET multi == find_multi_fruit_swipe(FrameTargets)
           IN  /\ multi.kind = "MULTI"
               /\ action'.kind = "SWIPE"
               /\ action'.start_x = RegionLeft + multi.start_x
               /\ action'.end_x = RegionLeft + multi.end_x
               /\ <<action'.y - RegionTop, 1>> = multi.avg_y
      ]_vars

\* C17: a fruit update returns with a positive vertical velocity (at least
\* two samples, moving down the screen) has a predicted y strictly greater
\* than its current y, with the measured and with the default acceleration.
C17_DescendingPredictedBelow ==
    \A i \in 1..Len(updated_fruits) :
        updated_fruits[i].velocity[2][1] > 0
            => updated_fruits[i].predicted_pos[2] > updated_fruits[i].center[2]

\* the time between the two most recent samples of a history of two or more
LastDt(h) == h[Len(h)][1] - h[Len(h) - 1][1]

\* C18 as claimed: every history whose latest vertical velocity is below the
\* hover threshold in absolute value is classified as hover, whatever the
\* estimated acceleration.
C18_Original ==
    \A id \in DOMAIN fruit_history :
        LET h == fruit_history[id]
            m == TrajectoryParameters(h)
        IN  (/\ Len(h) >= 2
             /\ LastDt(h) > 0
             /\ Abs(m.vy[1]) < 15 * m.vy[2])
            => m.phase = "hover"

\* C18 amended: such a history is classified as hover unless its velocity is
\* below -5 px/s and the estimated acceleration is negative (the ascending
\* test comes first).
C18_HoverUnlessAscending ==
    \A id \in DOMAIN fruit_history :
        LET h == fruit_history[id]
            m == TrajectoryParameters(h)
        IN  (/\ Len(h) >= 2
             /\ LastDt(h) > 0
             /\ Abs(m.vy[1]) < 15 * m.vy[2]
             /\ ~(m.vy[1] < -5 * m.vy[2] /\ m.ay[1] < 0))
            => m.phase = "hover"

\* C18 witness: a track moving up at 10 px/s whose measured acceleration is
\* positive is classified as hover by update
C18_Witness ==
    \E i \in 1..Len(updated_fruits) :
        LET f == updated_fruits[i]
            h == fruit_history[f.track_id]
        IN  /\ f.track_id \in DOMAIN fruit_history
            /\ Len(h) = 3
            /\ f.velocity[2] = <<-10, 1>>
            /\ TrajectoryParameters(h).ay[1] > 0
            /\ f.phase = "hover"

\* C19: for a history whose two most recent samples have zero or negative
\* elapsed time, _calculate_trajectory_parameters returns zero velocity
\* together with the assumed-gravity acceleration.
C19_SafeDefault ==
    \A id \in DOMAIN fruit_history :
        LET h == fruit_history[id]
            m == TrajectoryParameters(h)
        IN  (Len(h) >= 2 /\ LastDt(h) <= 0)
            => /\ m.vx = <<0, 1>>
               /\ m.vy = <<0, 1>>
               /\ m.ay \in {<<-gravity, 1>>, <<gravity, 1>>}

\* a composite score strictly above the action threshold
AboveActionThreshold(score) == score > (ScoreOne \div ActionDen) * ActionNum

\* C20: a step emits at most one swipe, and it emits one exactly when it
\* processes a frame in which find_best_swipe_target returns a target with a
\* score strictly above the action threshold; that frame swipes the returned
\* target and sets last_swipe_time to its timestamp, and a step without a
\* swipe leaves last_swipe_time and total_swipes unchanged.
C20_OneSwipeWhenSelected ==
    [][/\ total_swipes' \in {total_swipes, total_swipes + 1}
       /\ total_swipes' = total_swipes + 1
              <=> /\ FrameProcessed
                  /\ FrameBest.target # 0
                  /\ AboveActionThreshold(FrameBest.score)
       /\ total_swipes' = total_swipes + 1
              => /\ action'.kind = "SWIPE"
                 /\ action'.target = FrameTargets[FrameBest.target]
                 /\ last_swipe_time' = frame_time'
       /\ total_swipes' = total_swipes
              => /\ last_swipe_time' = last_swipe_time
                 /\ FrameProcessed => action'.kind = "WAIT"
      ]_vars

\* C20 witness: after an earlier swipe, a frame past the cooldown in which
\* find_best_swipe_target returns a target with a score at or below the
\* threshold emits no swipe and leaves last_swipe_time at the earlier frame
C20_Witness ==
    /\ total_swipes = 1
    /\ action.kind = "WAIT"
    /\ last_swipe_time < frame_time
    /\ LET best == find_best_swipe_target(Targeted(updated_fruits),
                       frame_bombs, frame_time, last_swipe_time)
       IN  /\ best.target # 0
           /\ ~AboveActionThreshold(best.score)

\* the track IDs an assignment holds
AssignedIds(asg) == {p[1] : p \in Pairs(asg)}

\* C21 as claimed: the list update returns has exactly one entry for every
\* track that is live after the call, matched in this frame or not.
C21_Original ==
    \A id \in DOMAIN fruit_history :
        Cardinality({i \in 1..Len(updated_fruits) :
                        updated_fruits[i].track_id = id}) = 1

\* C21 amended: the list update returns has one entry for every assignment
\* of the call, each carrying the ID of a track that was matched or created
\* in this frame and is live after the call with this frame's sample as its
\* last one; a live track that matched no detection has no entry.
C21_EntriesForAssignedOnly ==
    [][/\ Len(updated_fruits') = Len(assigned')
       /\ \A i \in 1..Len(updated_fruits') :
              /\ updated_fruits'[i].track_id \in AssignedIds(assigned')
              /\ updated_fruits'[i].track_id \in DOMAIN fruit_history'
              /\ LastSeen(fruit_history'[updated_fruits'[i].track_id])
                     = update_time'
       /\ \A id \in DOMAIN fruit_history' :
              id \notin AssignedIds(assigned')
                  => \A i \in 1..Len(updated_fruits') :
                         updated_fruits'[i].track_id # id
      ]_vars

\* C21 witness: track 0 is live but matched no detection of the last call,
\* which returned one entry, for the new track 1
C21_Witness ==
    /\ DOMAIN fruit_history = {0, 1}
    /\ LastSeen(fruit_history[0]) < update_time
    /\ update_time - LastSeen(fruit_history[0]) <= TrackTimeout
    /\ Len(updated_fruits) = 1
    /\ updated_fruits[1].track_id = 1

\* C22: a frame without target detections, with or without hazards and live
\* tracks, leaves the run loop running, emits no swipe and leaves
\* last_swipe_time, total_swipes and potential_pomegranates unchanged.
C22_NoTargetsNoAction ==
    [][(FrameProcessed /\ current_fruits' = <<>>) =>
           /\ pc' = "running"
           /\ action' = NoSwipe
           /\ last_swipe_time' = last_swipe_time
           /\ total_swipes' = total_swipes
           /\ potential_pomegranates' = potential_pomegranates
      ]_vars

\* C22 witness: a frame with a hazard and no target detection, processed
\* after the cooldown while a track is live and the fingerprint table holds
\* an entry
C22_Witness ==
    /\ pc = "running"
    /\ current_fruits = <<>>
    /\ update_time = frame_time
    /\ frame_bombs # <<>>
    /\ DOMAIN fruit_history # {}
    /\ DOMAIN potential_pomegranates # {}
    /\ ~CooldownActive(frame_time, last_swipe_time)
    /\ action = NoSwipe

\* C23: the track table and the ID counter after a frame are what update
\* yields for the fruits of the frame alone, whatever hazards the detection
\* list holds besides them, and no sample added in the frame is the position
\* of a hazard of the frame.
C23_HazardsNotTracked ==
    [][FrameProcessed =>
           /\ \A hazards \in BombLists \cup {frame_bombs'} :
                  LET sep == separate_fruits_bombs(
                                 Detections(current_fruits', hazards))
                      r == Update(fruit_history, next_track_id, sep.fruits,
                                  update_time')
                  IN  /\ r.history = fruit_history'
                      /\ r.next = next_track_id'
           /\ \A id \in DOMAIN fruit_history' :
                  LastSeen(fruit_history'[id]) = update_time'
                      => \A k \in 1..Len(frame_bombs') :
                             LastPos(fruit_history'[id])
                                 # frame_bombs'[k].center
      ]_vars

\* C23 witness: two frames with a fruit and a hazard have left one track of
\* two samples and the counter at 1
C23_Witness ==
    /\ frame_bombs # <<>>
    /\ current_fruits # <<>>
    /\ update_time = frame_time
    /\ DOMAIN fruit_history = {0}
    /\ Len(fruit_history[0]) = 2
    /\ next_track_id = 1

EligibleSet(fruits, bombs) ==
    {i \in 1..Len(fruits) : Eligible(fruits[i], bombs)}

C26_SwipeAtLeastMinimum ==
    [][(FrameProcessed /\ action'.kind = "SWIPE")
           => Abs(action'.end_x - action'.start_x) >= MinSwipe]_vars

\* the frame's call of check_pomegranate_behavior found the mode inactive, or
\* switched it off as expired, and left it active
Activated ==
    /\ FrameProcessed
    /\ ~rapid_mode \/ frame_time' > rapid_mode_end_time
    /\ rapid_mode'

\* C27: rapid mode becomes active only in a frame with a target whose
\* fingerprint entry has a count of at least 2 and a first-seen time more
\* than 1.0 s before the frame's timestamp, and the activation sets the
\* expiry to the frame's timestamp plus 3.0 s.
C27_ActivationNeedsPersistedTarget ==
    [][Activated =>
           /\ \E i \in 1..Len(FrameTargets) :
                  /\ FrameTargets[i].center \in DOMAIN potential_pomegranates
                  /\ potential_pomegranates[FrameTargets[i].center][2]
                       >= MinSlices
                  /\ frame_time'
                       - potential_pomegranates[FrameTargets[i].center][1]
                       > PersistTime
           /\ rapid_mode_end_time' = frame_time' + RapidTime
      ]_vars

\* C27 witness: the mode was activated in the frame just processed
C27_Witness ==
    /\ rapid_mode
    /\ update_time = frame_time
    /\ rapid_mode_end_time = frame_time + RapidTime
    /\ current_fruits # <<>>

\* C28: in every frame with a target at the position of a fingerprint entry,
\* the observation count of that entry, if the entry is kept, is one more
\* than before the frame, whether or not the frame emits a swipe.
C28_CountedEveryFrame ==
    [][FrameProcessed =>
           \A i \in 1..Len(FrameTargets) :
               LET fid == FruitId(FrameTargets[i])
               IN  (fid \in DOMAIN potential_pomegranates
                        /\ fid \in DOMAIN potential_pomegranates')
                       => potential_pomegranates'[fid][2]
                            = potential_pomegranates[fid][2] + 1
      ]_vars

\* C29: the fingerprint table is keyed by position only. In a frame that
\* swipes a target at (x, y), the entry at (x, y) is the one that changes,
\* whatever track the target belongs to: an existing entry keeps its
\* first-seen time and counts one more (or is purged as stale), a missing
\* one is created with the frame's timestamp and count 1; every other entry
\* is left as it was or purged.
C29_KeyedByPosition ==
    [][(FrameProcessed /\ action'.kind = "SWIPE") =>
           LET pos == action'.target.center
               pp == potential_pomegranates
           IN  /\ DOMAIN potential_pomegranates' \subseteq DOMAIN pp \cup {pos}
               /\ \A f \in DOMAIN potential_pomegranates' \ {pos} :
                      potential_pomegranates'[f] = pp[f]
               /\ pos \notin DOMAIN pp
                      => /\ pos \in DOMAIN potential_pomegranates'
                         /\ potential_pomegranates'[pos] = <<frame_time', 1>>
               /\ pos \in DOMAIN pp
                      => IF pos \in DOMAIN potential_pomegranates'
                         THEN potential_pomegranates'[pos]
                                  = <<pp[pos][1], pp[pos][2] + 1>>
                         ELSE frame_time' - pp[pos][1] > PurgeTime
      ]_vars

\* C29 witness: the target just swiped belongs to a track that is younger
\* than the entry at its position, which now counts 2
C29_Witness ==
    /\ action.kind = "SWIPE"
    /\ update_time = frame_time
    /\ action.target.center \in DOMAIN potential_pomegranates
    /\ potential_pomegranates[action.target.center][2] = 2
    /\ action.target.track_id \in DOMAIN fruit_history
    /\ potential_pomegranates[action.target.center][1]
         < fruit_history[action.target.track_id][1][1]

\* C30: in every frame the value check_pomegranate_behavior returns equals
\* the rapid_mode flag after the call, and the duration of a swipe emitted in
\* the frame is 0.8 * swipe_duration if that flag is set and swipe_duration
\* if it is not.
C30_DurationFollowsMode ==
    [][FrameProcessed =>
           /\ is_rapid_mode' = rapid_mode'
           /\ action'.kind = "SWIPE" =>
                  action'.duration
                      = IF rapid_mode'
                        THEN (swipe_duration * RapidFactorNum)
                                 \div RapidFactorDen
                        ELSE swipe_duration
      ]_vars

\* C30 witness: a swipe of shortened duration in a frame with the mode active
C30_Witness ==
    /\ update_time = frame_time
    /\ rapid_mode
    /\ action.kind = "SWIPE"
    /\ action.duration < swipe_duration

\* C31: in one pass of _assign_ids_to_fruits no track is matched to two
\* detections of the frame, so no track receives two history entries.
C31_TrackMatchedOnce ==
    \A i, j \in 1..Len(ml_updated) :
        ml_updated[i].track_id = ml_updated[j].track_id => i = j

\* a step that called FruitTracker.update
TrackerPass == update_time' # update_time

\* a step that called MLStrategy._assign_ids_to_fruits
MLPass == clock' # clock /\ update_time' = update_time

\* in a FruitTracker.update step, a detection at distance th from a track's
\* last position is not matched to that track, and gets a new ID if no track
\* is closer to it than th
TrackerUnmatchedAt(th) ==
    \A j \in 1..Len(current_fruits') :
        LET pos == current_fruits'[j].center
            at == {id \in DOMAIN fruit_history :
                      Dist2(LastPos(fruit_history[id]), pos) = th * th}
            closer == {id \in DOMAIN fruit_history :
                          Dist2(LastPos(fruit_history[id]), pos) < th * th}
        IN  /\ \A id \in at : <<id, j>> \notin Pairs(assigned')
            /\ (at # {} /\ closer = {})
                   => \E p \in Pairs(assigned') :
                          /\ p[2] = j
                          /\ p[1] >= next_track_id
                          /\ p[1] \notin DOMAIN fruit_history

\* the same for an _assign_ids_to_fruits step and the tracks of the tracking
\* window, as the table stands when the detection is processed
MLUnmatchedAt(th) ==
    \A i \in 1..Len(ml_fruits') :
        LET pos == ml_fruits'[i].center
            seen == AssignLoop(fruit_tracks, track_id_counter,
                               SubSeq(ml_fruits', 1, i - 1), 1, clock', <<>>)
            recent == {id \in DOMAIN seen.tracks :
                          MLRecent(seen.tracks[id], clock')}
            at == {id \in recent :
                      Dist2(MLLastPos(seen.tracks[id]), pos) = th * th}
            closer == {id \in recent :
                          Dist2(MLLastPos(seen.tracks[id]), pos) < th * th}
        IN  /\ \A id \in at : ml_updated'[i].track_id # id
            /\ (at # {} /\ closer = {})
                   => /\ ml_updated'[i].track_id > seen.counter
                      /\ ml_updated'[i].track_id \notin DOMAIN seen.tracks

\* C32 as stated, for both association passes: a detection exactly 50 px
\* from a track's last position is not matched to it and, if no track is
\* closer than 50 px, creates a new track.
C32_Original ==
    [][/\ TrackerPass => TrackerUnmatchedAt(AssocThreshold)
       /\ MLPass => MLUnmatchedAt(AssocThreshold)]_vars

\* C32: a detection exactly at the association threshold distance of the
\* pass (50 px in FruitTracker._assign_track_ids, 80 px in
\* MLStrategy._assign_ids_to_fruits) from a track's last position is not
\* matched to that track and, if no track is strictly closer than the
\* threshold, creates a new track.
C32_ThresholdIsStrict ==
    [][/\ TrackerPass => TrackerUnmatchedAt(AssocThreshold)
       /\ MLPass => MLUnmatchedAt(MLThreshold)]_vars

\* C32 witness: FruitTracker has a new track exactly 50 px from an older
\* one, and MLStrategy a new track exactly 80 px from an older one, all seen
\* in the last two passes
C32_Witness ==
    /\ \E a, b \in DOMAIN fruit_history :
           /\ a < b
           /\ Len(fruit_history[b]) = 1
           /\ LastSeen(fruit_history[b]) = update_time
           /\ update_time - LastSeen(fruit_history[a]) <= TrackTimeout
           /\ Dist2(LastPos(fruit_history[a]), LastPos(fruit_history[b]))
                = AssocThreshold * AssocThreshold
    /\ \E a, b \in DOMAIN fruit_tracks :
           /\ a < b
           /\ Len(fruit_tracks[b].positions) = 1
           /\ fruit_tracks[b].last_seen - fruit_tracks[a].last_seen
                < MLRecency
           /\ Dist2(MLLastPos(fruit_tracks[a]), MLLastPos(fruit_tracks[b]))
                = MLThreshold * MLThreshold

\* C33: the target find_best_swipe_target returns in a frame, and the target
\* of the swipe the frame emits, has a y between 0.4 and 0.7 of the frame
\* height, both bounds included.
C33_TargetInHeightWindow ==
    [][FrameProcessed =>
           /\ FrameBest.target # 0 =>
                  LET y == FrameTargets[FrameBest.target].center[2]
                  IN  2 * frame_height <= 5 * y /\ 10 * y <= 7 * frame_height
           /\ action'.kind = "SWIPE" =>
                  /\ 2 * frame_height <= 5 * action'.target.center[2]
                  /\ 10 * action'.target.center[2] <= 7 * frame_height
      ]_vars

\* C33 witness: a frame with targets above the window, no hazard and the
\* cooldown elapsed ends without a swipe
C33_Witness ==
    /\ update_time = frame_time
    /\ updated_fruits # <<>>
    /\ \A i \in 1..Len(updated_fruits) :
           /\ 5 * updated_fruits[i].predicted_pos[2] < 2 * frame_height
           /\ updated_fruits[i].confidence = 100
    /\ frame_bombs = <<>>
    /\ frame_time - last_swipe_time >= cooldown
    /\ action = NoSwipe

\* C34: for every history with two or more samples and a positive time
\* between the last two, the phase is given by the first matching rule of:
\* ascending (vy < -5 and ay < 0), hover (|vy| < 15), descending (vy > 5),
\* unknown; vy is 20 * dy / dt px/s for dy pixels in dt ticks.
C34_FirstMatchingRule ==
    \A id \in DOMAIN fruit_history :
        LET h == fruit_history[id]
            m == TrajectoryParameters(h)
            dt == LastDt(h)
            dy == h[Len(h)][3] - h[Len(h) - 1][3]
            rule1 == TicksPerSecond * dy < -5 * dt /\ m.ay[1] < 0
            rule2 == TicksPerSecond * Abs(dy) < 15 * dt
            rule3 == TicksPerSecond * dy > 5 * dt
        IN  (Len(h) >= 2 /\ dt > 0)
            => /\ rule1 => m.phase = "ascending"
               /\ (~rule1 /\ rule2) => m.phase = "hover"
               /\ (~rule1 /\ ~rule2 /\ rule3) => m.phase = "descending"
               /\ (~rule1 /\ ~rule2 /\ ~rule3) => m.phase = "unknown"

\* C34 witness: update reports hover for a track moving down at 10 px/s,
\* where the hover and the descending rule both match
C34_Witness ==
    \E i \in 1..Len(updated_fruits) :
        LET f == updated_fruits[i]
        IN  /\ f.track_id \in DOMAIN fruit_history
            /\ Len(fruit_history[f.track_id]) >= 2
            /\ LastSeen(fruit_history[f.track_id]) = update_time
            /\ f.velocity[2] = <<10, 1>>
            /\ f.phase = "hover"

\* C35: every fruit update returns for a track with a single history sample
\* has velocity (0, 0), phase unknown and a predicted position equal to its
\* current position.
C35_SingleSampleDefaults ==
    \A i \in 1..Len(updated_fruits) :
        LET f == updated_fruits[i]
        IN  (f.track_id \in DOMAIN fruit_history
                 /\ Len(fruit_history[f.track_id]) = 1)
            => /\ f.velocity = <<<<0, 1>>, <<0, 1>>>>
               /\ f.phase = "unknown"
               /\ f.predicted_pos = f.center
               /\ f.center = LastPos(fruit_history[f.track_id])

\* C35 witness: update returned a new track with one sample next to a track
\* with a measured velocity
C35_Witness ==
    \E i, j \in 1..Len(updated_fruits) :
        /\ updated_fruits[i].track_id \in DOMAIN fruit_history
        /\ Len(fruit_history[updated_fruits[i].track_id]) = 1
        /\ updated_fruits[j].track_id \in DOMAIN fruit_history
        /\ Len(fruit_history[updated_fruits[j].track_id]) >= 2
        /\ updated_fruits[j].velocity[1][1] # 0

\* C36: no hazard of a frame lies on the path of the swipe the frame emits:
\* none is less than 30 px above or below the swipe's y with its x between
\* the swipe's start x and end x, ends included (frame coordinates).
C36_NoHazardOnPath ==
    [][(FrameProcessed /\ action'.kind = "SWIPE") =>
           LET start == action'.start_x - RegionLeft
               end == action'.end_x - RegionLeft
               y == action'.y - RegionTop
           IN  \A k \in 1..Len(frame_bombs') :
                   ~(/\ Abs(frame_bombs'[k].center[2] - y) < PathY
                     /\ Min(start, end) <= frame_bombs'[k].center[1]
                     /\ frame_bombs'[k].center[1] <= Max(start, end))
      ]_vars

\* hazard k is less than 30 px above or below fruit f and less than 80 px
\* to its left or right
NearHazard(f, hazards, k) ==
    /\ Abs(f.center[2] - hazards[k].center[2]) < PathY
    /\ Abs(f.center[1] - hazards[k].center[1]) < AdjustReach

\* the span adjust_swipe_for_bombs returns for fruit f contains x
InSpan(f, hazards, x) ==
    LET span == adjust_swipe_for_bombs(f.center[1], f.center[2], hazards)
    IN  span[1] <= x /\ x <= span[2]

\* adjust_swipe_for_bombs takes its fallback for fruit f
FallbackTaken(f, hazards) ==
    LET r == AdjustLoop(f.center[1], f.center[2], hazards, 1,
                        f.center[1] - swipe_length, f.center[1] + swipe_length)
    IN  r[2] - r[1] < MinSwipe

C38_SelectedSpanWide ==
    [][(FrameProcessed /\ FrameBest.target # 0) =>
           LET f == FrameTargets[FrameBest.target]
               span == adjust_swipe_for_bombs(f.center[1], f.center[2],
                                              frame_bombs')
           IN  /\ ~FallbackTaken(f, frame_bombs')
               /\ span[2] - span[1] >= 90
               /\ span[1] <= f.center[1]
               /\ f.center[1] <= span[2]
      ]_vars

\* C38 witness: the target at x = 400 was returned, and swiped, in a frame
\* with a hazard 70 px away on either side; the span runs from 355 to 445,
\* 90 px
C38_Witness ==
    /\ action.kind = "SWIPE"
    /\ action.target.center[1] = 400
    /\ frame_bombs = <<Bomb(<<330, PreferredY>>), Bomb(<<470, PreferredY>>)>>
    /\ ~FallbackTaken(action.target, frame_bombs)
    /\ adjust_swipe_for_bombs(action.target.center[1],
                              action.target.center[2], frame_bombs)
           = <<355, 445>>

\* a press among the button calls is followed by a release
Released(events) ==
    \A i \in 1..Len(events) :
        events[i] = "press" =>
            \E j \in (i + 1)..Len(events) : events[j] = "release"

\* C39: when perform_swipe has returned, every press of the left button it
\* issued has been followed by a release, also when a call of the mouse
\* library or of pyautogui raised and the fallback was taken.
C39_PressReleased ==
    swipe_calls > 0 => Released(mouse_events)

====
